---------------------------- MODULE Spec2Model ----------------------------
(***************************************************************************)
(* Verification model of basler-webhooks: the YCBM booking webhook         *)
(* (api/ycbm-qb.js in its two revisions, v2.0.1 and v2.1.0), the Stripe    *)
(* payment lookup (lib/stripe-lookup.js), the QuickBooks helpers           *)
(* (lib/quickbooks.js), the WooCommerce order webhook (woo-qb-sync with    *)
(* lib/parse-order.js and lib/product-map.js) and the monthly IDS usage    *)
(* invoicing (api/ids-monthly-invoice.js).                                 *)
(*                                                                         *)
(* Dates are day numbers: one unit is one calendar day.                    *)
(*                                                                         *)
(* Money.  Stripe amounts are integer cents.  JavaScript dollar Numbers    *)
(* are modelled as exact decimals scaled by DollarScale (1/10000 dollar),  *)
(* so cents/100, qty * price, total * (percent/100) and Math.round(x*100)  *)
(* /100 are all computed exactly; binary floating point representation     *)
(* error is not modelled.                                                  *)
(***************************************************************************)
EXTENDS Integers, Sequences, FiniteSets, TLC

(***************************************************************************)
(* Bounds of the model                                                     *)
(***************************************************************************)
\* largest additionalTeamMembers value a payload carries
MaxExtras == 2
\* number of non-matching records that may precede a candidate in a
\* Stripe list window, beyond the page limit of the list call
MaxOverflow == 1
\* largest number of days between the booking / order date and the day the
\* webhook is processed
MaxDelay == 1

MaxTotal == 2

MaxAllocation == 3

(***************************************************************************)
(* Program constants                                                       *)
(***************************************************************************)
DEFAULT_BST_PRICE == 1750
DEFAULT_ADD_PRICE == 99
\* stripe.checkout.sessions.list({ limit: 10, ... })
SessionListLimit == 10
\* stripe.charges.list({ limit: 20, ... })
ChargeListLimit == 20
\* dueDate.setDate(dueDate.getDate() + 30)
NetDays == 30

DollarScale == 100 * 100
Dollars(n) == n * DollarScale
CentUnit == DollarScale \div 100

(***************************************************************************)
(* Generic helpers                                                         *)
(***************************************************************************)
RECURSIVE SumSeq(_)
SumSeq(s) == IF s = <<>> THEN 0 ELSE Head(s) + SumSeq(Tail(s))

Take(s, n) == SubSeq(s, 1, IF n <= Len(s) THEN n ELSE Len(s))

\* floor division that is also right for negative numerators
FloorDiv(a, b) == IF a >= 0 THEN a \div b ELSE -((-a + b - 1) \div b)

(***************************************************************************)
(* lib/stripe-lookup.js : money conversions                                *)
(***************************************************************************)
\* centsToDollars(cents) = cents / 100
centsToDollars(cents) == (cents * DollarScale) \div 100

\* Math.round(x): the integer nearest to x, ties towards +infinity,
\* for the rational x = num / den (den > 0)
MathRound(num, den) == FloorDiv(2 * num + den, 2 * den)

\* Math.round(x * 100) / 100 for a scaled dollar value x
RoundToCents(x) == MathRound(x * 100, DollarScale) * CentUnit

(***************************************************************************)
(* Strings: an email is a sequence of characters; <<>> is the empty        *)
(* (falsy) string.                                                         *)
(***************************************************************************)
LowerChar(c) ==
  LET upper ==
        <<"A", "B", "C", "D", "E", "F", "G", "H", "I", "J", "K", "L", "M", "N",
        "O", "P", "Q", "R", "S", "T", "U", "V", "W", "X", "Y", "Z">>
      lower ==
        <<"a", "b", "c", "d", "e", "f", "g", "h", "i", "j", "k", "l", "m", "n",
        "o", "p", "q", "r", "s", "t", "u", "v", "w", "x", "y", "z">>
  IN IF \E i \in DOMAIN upper : upper[i] = c
       THEN lower[CHOOSE i \in DOMAIN upper : upper[i] = c]
       ELSE c

toLowerCase(s) == [i \in DOMAIN s |-> LowerChar(s[i])]

\* String.prototype.trim: the blanks at both ends are removed
RECURSIVE trim(_)
trim(s) ==
  IF s # <<>> /\ Head(s) = " " THEN trim(Tail(s))
  ELSE IF s # <<>> /\ s[Len(s)] = " " THEN trim(SubSeq(s, 1, Len(s) - 1))
  ELSE s

\* String.prototype.includes
includes(s, part) ==
  \E k \in 0..(Len(s) - Len(part)) : SubSeq(s, k + 1, k + Len(part)) = part


(***************************************************************************)
(* lib/stripe-lookup.js : the Stripe side                                  *)
(*                                                                         *)
(* A checkout session as the list call returns it:                         *)
(*   [customer_details_email, customer_email, amount_total,                *)
(*    amount_subtotal, discounts]                                          *)
(* discounts is total_details.breakdown.discounts (<<>> when Stripe        *)
(* returns no breakdown); an entry is                                      *)
(*   [amount, hasCoupon, percent_off, amount_off]                          *)
(* with 0 standing for an absent (falsy) number.                           *)
(* A charge: [billing_email, receipt_email, amount].                       *)
(***************************************************************************)
NotFound ==
  [found |-> FALSE, threw |-> FALSE, kind |-> "none", amountPaid |-> 0,
   subtotal |-> 0, discountAmount |-> 0, discountType |-> "null",
   percentOff |-> 0]

\* the model's note of whether stripe.charges.list was called
WithChargeSearch(r, searched) == [found |-> r.found, threw |-> r.threw,
  kind |-> r.kind, amountPaid |-> r.amountPaid, subtotal |-> r.subtotal,
  discountAmount |-> r.discountAmount, discountType |-> r.discountType,
  percentOff |-> r.percentOff, searchedCharges |-> searched]

\* the promise of findPaymentByEmail rejects (an exception reaches the caller)
Threw == [NotFound EXCEPT !.threw = TRUE]

\* session.customer_details?.email || session.customer_email
sessionEmail(session) ==
  IF session.customer_details_email # <<>>
    THEN session.customer_details_email
    ELSE session.customer_email

\* charge.billing_details?.email || charge.receipt_email
chargeEmail(charge) ==
  IF charge.billing_email # <<>> THEN charge.billing_email
                                 ELSE charge.receipt_email

\* sessionEmail && sessionEmail.toLowerCase() === email.toLowerCase()
EmailMatchesCaseSensitive(recordEmail, email) ==
  recordEmail # <<>> /\ recordEmail = email

EmailMatches(recordEmail, email) ==
  recordEmail # <<>> /\ toLowerCase(recordEmail) = toLowerCase(email)

extractSessionDetails(session) ==
  LET amountPaid == session.amount_total
      subtotal   == session.amount_subtotal
      fromTotals == IF subtotal > amountPaid THEN subtotal - amountPaid ELSE 0
      hasBreakdown == Len(session.discounts) > 0
      discountInfo == session.discounts[1]
      discountAmount ==
        IF hasBreakdown /\ discountInfo.amount # 0
          THEN discountInfo.amount ELSE fromTotals
      hasCoupon == hasBreakdown /\ discountInfo.hasCoupon
      discountType ==
        IF hasCoupon /\ discountInfo.percent_off # 0 THEN "percent"
        ELSE IF hasCoupon /\ discountInfo.amount_off # 0 THEN "fixed"
        ELSE "null"
      percentOff ==
        IF hasCoupon /\ discountInfo.percent_off # 0
          THEN discountInfo.percent_off ELSE 0
  IN [found |-> TRUE, threw |-> FALSE, kind |-> "session",
      amountPaid |-> amountPaid, subtotal |-> subtotal,
      discountAmount |-> discountAmount, discountType |-> discountType,
      percentOff |-> percentOff]

extractChargeDetails(charge) ==
  [found |-> TRUE, threw |-> FALSE, kind |-> "charge",
   amountPaid |-> charge.amount, subtotal |-> charge.amount,
   discountAmount |-> 0, discountType |-> "null", percentOff |-> 0]

\* stripe.checkout.sessions.list({ limit: 10, created: { gte: startTime } }):
\* the first page of the sessions created in the lookback window
ListSessions(window) == Take(window, SessionListLimit)

\* stripe.charges.list({ limit: 20, created: { gte: startTime } })
ListCharges(window) == Take(window, ChargeListLimit)

\* for (const session of sessions.data) { if (match) return ... }
FirstSessionMatch(sessions, email) ==
  LET hits == {i \in DOMAIN sessions : EmailMatches(sessionEmail(sessions[i]), email)}
  IN IF hits = {} THEN 0 ELSE CHOOSE i \in hits : \A j \in hits : i <= j

FirstChargeMatch(charges, email) ==
  LET hits == {i \in DOMAIN charges : EmailMatches(chargeEmail(charges[i]), email)}
  IN IF hits = {} THEN 0 ELSE CHOOSE i \in hits : \A j \in hits : i <= j

\* new Stripe(process.env.STRIPE_SECRET_KEY) stands before the try block:
\* what it does without a key is the library's choice (env.ctorRejectsNoKey)
StripeConstructorThrows(env) == ~env.configured /\ env.ctorRejectsNoKey

\* the body of the try block; any error inside it is caught
SearchStripe(email, env) ==
  IF ~env.configured \/ ~env.reachable THEN WithChargeSearch(NotFound, FALSE)
  ELSE LET sessions == ListSessions(env.sessions)
           si == FirstSessionMatch(sessions, email)
           charges == ListCharges(env.charges)
           ci == FirstChargeMatch(charges, email)
       IN IF si # 0
            THEN WithChargeSearch(extractSessionDetails(sessions[si]), FALSE)
          ELSE IF ci # 0
            THEN WithChargeSearch(extractChargeDetails(charges[ci]), TRUE)
          ELSE WithChargeSearch(NotFound, TRUE)

findPaymentByEmail(email, env) ==
  IF StripeConstructorThrows(env) THEN WithChargeSearch(Threw, FALSE)
                                  ELSE SearchStripe(email, env)


(***************************************************************************)
(* Inputs: what Stripe holds when a webhook arrives                        *)
(***************************************************************************)
\* the discount Stripe applied to a checkout of the given subtotal (cents);
\* a checkout session takes at most one coupon: a percentage, a fixed amount,
\* or a breakdown entry whose discount.coupon Stripe did not send
AppliedDiscounts(subtotal) ==
  LET PercentDiscount(p) ==
        [amount |-> (subtotal * p) \div 100, hasCoupon |-> TRUE,
         percent_off |-> p, amount_off |-> 0]
      FixedDiscount(a) ==
        [amount |-> a, hasCoupon |-> TRUE, percent_off |-> 0, amount_off |-> a]
      BareDiscount(a) ==
        [amount |-> a, hasCoupon |-> FALSE, percent_off |-> 0, amount_off |-> 0]
  IN { <<>>,
       <<PercentDiscount(10)>>,
       <<PercentDiscount(15)>>,
       <<PercentDiscount(100)>>,
       <<FixedDiscount(5000)>>,
       <<BareDiscount(5000)>> }

RECURSIVE SumAmounts(_)
SumAmounts(ds) == IF ds = <<>> THEN 0 ELSE Head(ds).amount + SumAmounts(Tail(ds))

\* amount_total = amount_subtotal - discount + tax (sales tax in percent of
\* the discounted amount); the breakdown is in the response or not
SessionsFor(emailPairs) ==
  { [customer_details_email |-> ep[1], customer_email |-> ep[2],
     amount_subtotal |-> sub,
     amount_total |-> (sub - SumAmounts(applied))
                      + ((sub - SumAmounts(applied)) * tax) \div 100,
     discounts |-> IF expanded THEN applied ELSE <<>>] :
      ep \in emailPairs, sub \in {175000}, tax \in {0, 8},
      applied \in AppliedDiscounts(175000), expanded \in BOOLEAN }

ChargesFor(emailPairs) ==
  { [billing_email |-> ep[1], receipt_email |-> ep[2], amount |-> 175000] :
      ep \in emailPairs }

BookingEmails == { <<"a">>, <<"B">> }
\* the contact and status fields of a booking payload: complete, cancelled,
\* or with one of the contact fields absent
BookingContacts ==
  LET Contact(first, last, email, status) ==
        [firstName |-> first, lastName |-> last, email |-> email,
         bookingStatus |-> status]
  IN { Contact(<<"J">>, <<"D">>, e, "UPCOMING") : e \in BookingEmails }
     \cup { Contact(<<"J">>, <<"D">>, <<"a">>, "CANCELLED"),
            Contact(<<>>, <<"D">>, <<"a">>, "UPCOMING"),
            Contact(<<"J">>, <<>>, <<"a">>, "UPCOMING"),
            Contact(<<"J">>, <<"D">>, <<>>, "UPCOMING") }

StripeEmailPairs == { << <<"A">>, <<>> >>, << <<>>, <<"b">> >> }

StripeEnvs ==
  { [configured |-> TRUE, ctorRejectsNoKey |-> TRUE, reachable |-> TRUE,
     sessions |-> ss, charges |-> cs] :
      ss \in {<<>>} \cup {<<x>> : x \in SessionsFor(StripeEmailPairs)},
      cs \in {<<>>} \cup {<<x>> : x \in ChargesFor(StripeEmailPairs)} }
  \cup
  { [configured |-> c, ctorRejectsNoKey |-> k, reachable |-> r,
     sessions |-> <<>>, charges |-> <<>>] :
      c \in BOOLEAN, k \in BOOLEAN, r \in {FALSE} }


(***************************************************************************)
(* lib/parse-order.js : parseYCBMPayload (v1.1.1)                          *)
(*                                                                         *)
(* payload.additionalTeamMembers is a string or absent:                    *)
(*   [text |-> "absent"], [text |-> "nan"] (parseInt gives NaN) or         *)
(*   [text |-> "int", n |-> k] (parseInt gives k)                          *)
(***************************************************************************)
RawExtras ==
  { [text |-> "absent", n |-> 0], [text |-> "nan", n |-> 0] }
  \cup { [text |-> "int", n |-> k] : k \in (-1)..MaxExtras }

parseAdditionalTeamMembers(raw) ==
  IF raw.text = "int" /\ raw.n > 0 THEN raw.n ELSE 0

\* absent text fields default to '' (the empty sequence here); nothing is
\* validated and nothing throws
parseYCBMPayload(payload) ==
  [firstName |-> payload.firstName,
   lastName |-> payload.lastName,
   fullName |-> trim(payload.firstName \o <<" ">> \o payload.lastName),
   email |-> payload.email,
   additionalTeamMembers |-> parseAdditionalTeamMembers(payload.additionalTeamMembers),
   bookingStatus |-> payload.bookingStatus]

(***************************************************************************)
(* lib/quickbooks.js : getItemPrice                                        *)
(***************************************************************************)
\* what qb.getItem answers: the item's UnitPrice (scaled dollars, 0 when the
\* item carries none) or a failure
ItemLookups ==
  { [ok |-> FALSE, UnitPrice |-> 0] }
  \cup { [ok |-> TRUE, UnitPrice |-> u] :
           u \in {0, Dollars(99), Dollars(99) + 50 * CentUnit} }

\* item.UnitPrice || 0, and on failure defaults[String(itemId)] || 0
getItemPrice(item, lookup) ==
  IF lookup.ok THEN lookup.UnitPrice
  ELSE IF item = "BST" THEN Dollars(DEFAULT_BST_PRICE)
  ELSE IF item = "ADD" THEN Dollars(DEFAULT_ADD_PRICE)
  ELSE 0

(***************************************************************************)
(* api/ycbm-qb.js : flow selection and the documents of each flow          *)
(***************************************************************************)
DetermineFlowDiscountFirst(stripePayment, booking) ==
  IF ~stripePayment.found THEN "PAYLATER"
  ELSE IF stripePayment.discountAmount > 0 THEN "PAID_WITH_DISCOUNT"
  ELSE IF booking.additionalTeamMembers > 0 THEN "PARTIAL_PAYMENT"
  ELSE "SIMPLE_PAID"

DetermineFlow(stripePayment, booking) ==
  IF ~stripePayment.found THEN "PAYLATER"
  ELSE IF booking.additionalTeamMembers > 0 THEN "PARTIAL_PAYMENT"
  ELSE IF stripePayment.discountAmount > 0 THEN "PAID_WITH_DISCOUNT"
  ELSE "SIMPLE_PAID"

Line(item, qty, amount) == [item |-> item, qty |-> qty, amount |-> amount]

\* TotalAmt of a created document: QuickBooks adds up the line amounts
RECURSIVE TotalAmt(_)
TotalAmt(lines) ==
  IF lines = <<>> THEN 0 ELSE Head(lines).amount + TotalAmt(Tail(lines))

PaylaterLines(booking, bstPrice, addPrice) ==
  <<Line("BST", 1, bstPrice)>> \o
  (IF booking.additionalTeamMembers > 0
     THEN <<Line("ADD", booking.additionalTeamMembers,
                 booking.additionalTeamMembers * addPrice)>>
     ELSE <<>>)

SimplePaidLines(stripePayment) ==
  <<Line("BST", 1, centsToDollars(stripePayment.amountPaid))>>

PaidWithDiscountLines(stripePayment) ==
  <<Line("BST", 1, centsToDollars(stripePayment.subtotal)),
    Line("DISCOUNT", 1, -centsToDollars(stripePayment.discountAmount))>>

ExtrasTotal(booking, addPrice) == booking.additionalTeamMembers * addPrice

\* extrasTotal * (percentOff / 100), then Math.round(x * 100) / 100
ExtrasDiscountTruncated(stripePayment, extrasTotal) ==
  IF stripePayment.discountType = "percent" /\ stripePayment.percentOff # 0
    THEN (((extrasTotal * stripePayment.percentOff) \div 100) \div CentUnit) * CentUnit
    ELSE 0

ExtrasDiscount(stripePayment, extrasTotal) ==
  IF stripePayment.discountType = "percent" /\ stripePayment.percentOff # 0
    THEN RoundToCents((extrasTotal * stripePayment.percentOff) \div 100)
    ELSE 0

\* v2.1.0: one invoice with every line
PartialInvoiceLines(booking, stripePayment, addPrice) ==
  LET extrasTotal == ExtrasTotal(booking, addPrice)
      extrasDiscount == ExtrasDiscount(stripePayment, extrasTotal)
      discountAmount == centsToDollars(stripePayment.discountAmount)
  IN <<Line("BST", 1, centsToDollars(stripePayment.subtotal))>> \o
     (IF booking.additionalTeamMembers > 0
        THEN <<Line("ADD", booking.additionalTeamMembers, extrasTotal)>>
        ELSE <<>>) \o
     (IF discountAmount > 0
        THEN <<Line("DISCOUNT", 1, -discountAmount)>> ELSE <<>>) \o
     (IF extrasDiscount > 0
        THEN <<Line("DISCOUNT", 1, -extrasDiscount)>> ELSE <<>>)

\* v2.1.0: expectedTotal - amountPaid
PartialBalanceDue(booking, stripePayment, addPrice) ==
  LET extrasTotal == ExtrasTotal(booking, addPrice)
      expectedTotal ==
        centsToDollars(stripePayment.subtotal) + extrasTotal
        - centsToDollars(stripePayment.discountAmount)
        - ExtrasDiscount(stripePayment, extrasTotal)
  IN expectedTotal - centsToDollars(stripePayment.amountPaid)

\* v2.0.1: a sales receipt for the Stripe payment ...
PartialReceiptLines(stripePayment) ==
  LET discountAmount == centsToDollars(stripePayment.discountAmount)
  IN <<Line("BST", 1, centsToDollars(stripePayment.subtotal))>> \o
     (IF discountAmount > 0
        THEN <<Line("DISCOUNT", 1, -discountAmount)>> ELSE <<>>)

\* ... and an invoice for the extras
PartialExtrasInvoiceLines(booking, stripePayment, addPrice) ==
  LET extrasTotal == ExtrasTotal(booking, addPrice)
      extrasDiscount == ExtrasDiscount(stripePayment, extrasTotal)
  IN <<Line("ADD", booking.additionalTeamMembers, extrasTotal)>> \o
     (IF extrasDiscount > 0
        THEN <<Line("DISCOUNT", 1, -extrasDiscount)>> ELSE <<>>)

\* v2.0.1: extrasBalance = extrasTotal - extrasDiscount
PartialExtrasBalance(booking, stripePayment, addPrice) ==
  ExtrasTotal(booking, addPrice)
  - ExtrasDiscount(stripePayment, ExtrasTotal(booking, addPrice))


(***************************************************************************)
(* State of one webhook invocation                                         *)
(***************************************************************************)
VARIABLES
  version,        \* the deployed revision of api/ycbm-qb.js
  stripeEnv,      \* what Stripe holds and how the Stripe client behaves
  pc,             \* the handler's position
  booking,        \* parseYCBMPayload's result
  prices,         \* [bst, add] in scaled dollars
  stripePayment,  \* findPaymentByEmail's result
  flow,           \* the selected flow
  ledger,         \* the documents QuickBooks holds, in creation order
  calls,          \* the ledger calls issued so far: [op, ok]
  result          \* the handler's response

VARIABLES
  today,          \* the day on which the handler runs (new Date())
  eventDate,      \* the day of the booking / order
  settings        \* the ledger item references the environment configures

VARIABLES
  payload,        \* the WooCommerce order a webhook delivers
  order,          \* parseWooCommerceOrder's result
  product,        \* a product name and SKU to map
  mapping,        \* mapProductToQuickBooks' result
  usage,          \* what the IDS API reports for the billing month
  results         \* the monthly run's processed / skipped / errors lists

environment == <<today, eventDate, settings>>

otherWebhooks == <<payload, order, product, mapping, usage, results>>

vars == <<version, stripeEnv, pc, booking, prices, stripePayment, flow,
          ledger, calls, result, environment, otherWebhooks>>

\* a variable the webhook at hand does not use
Unused == <<>>

\* the days a booking / order is made on and the days it is processed on
EventDates == {1}

ProcessingDays(d) == d..(d + MaxDelay)

\* every item reference is configured
AllConfigured == [QB_ITEM_BST |-> TRUE, QB_ITEM_ADD |-> TRUE,
                  QB_ITEM_DISCOUNT |-> TRUE]

\* const dueDate = new Date(); dueDate.setDate(dueDate.getDate() + 30)
NetThirty(now) == now + NetDays

NoDate == 0

NoBooking ==
  [firstName |-> <<>>, lastName |-> <<>>, fullName |-> <<>>, email |-> <<>>,
   additionalTeamMembers |-> 0, bookingStatus |-> ""]

NoResult ==
  [status |-> "none", type |-> "none", total |-> 0, balanceDue |-> 0,
   invoiceSent |-> FALSE, paymentAmount |-> 0]

Doc(kind, lines, amount, linkedInvoice, dueDate) ==
  [kind |-> kind, lines |-> lines, amount |-> amount,
   linkedInvoice |-> linkedInvoice, dueDate |-> dueDate]

\* DueDate of the document data a handler builds: invoices are NET 30
DueDateOf(kind, now) == IF kind = "Invoice" THEN NetThirty(now) ELSE NoDate

Call(op, ok) == [op |-> op, ok |-> ok]

Init ==
  /\ version \in {"v2.0.1", "v2.1.0"}
  /\ eventDate \in EventDates
  /\ today \in ProcessingDays(eventDate)
  /\ settings = AllConfigured
  /\ payload = Unused
  /\ order = Unused
  /\ product = Unused
  /\ mapping = Unused
  /\ usage = Unused
  /\ results = Unused
  /\ stripeEnv \in StripeEnvs
  /\ pc = "idle"
  /\ booking = NoBooking
  /\ prices = [bst |-> 0, add |-> 0]
  /\ stripePayment = WithChargeSearch(NotFound, FALSE)
  /\ flow = "none"
  /\ ledger = <<>>
  /\ calls = <<>>
  /\ result = NoResult

\* catch (error) { return res.status(500).json({ status: 'error', ... }) }
Fail ==
  /\ pc' = "done"
  /\ result' = [NoResult EXCEPT !.status = "error"]

\* if (payload.source !== 'ycbm') return 200 { status: 'ignored' }
IgnoreForeign ==
  /\ pc = "idle"
  /\ pc' = "done"
  /\ result' = [NoResult EXCEPT !.status = "ignored"]
  /\ UNCHANGED <<environment, otherWebhooks, version, stripeEnv, booking, prices, stripePayment, flow,
                 ledger, calls>>

ReceiveBooking ==
  /\ pc = "idle"
  /\ \E who \in BookingContacts, raw \in RawExtras :
       booking' = parseYCBMPayload([firstName |-> who.firstName,
                                    lastName |-> who.lastName,
                                    email |-> who.email,
                                    additionalTeamMembers |-> raw,
                                    bookingStatus |-> who.bookingStatus])
  /\ pc' = "client"
  /\ UNCHANGED <<environment, otherWebhooks, version, stripeEnv, prices, stripePayment, flow, ledger,
                 calls, result>>

\* const qb = await getQBClient()  (the token refresh may throw)
GetQBClient ==
  /\ pc = "client"
  /\ \E ok \in BOOLEAN :
       IF ok
         THEN /\ pc' = IF version = "v2.1.0" THEN "prices" ELSE "customer"
              /\ UNCHANGED result
         ELSE Fail
  /\ UNCHANGED <<environment, otherWebhooks, version, stripeEnv, booking, prices, stripePayment, flow,
                 ledger, calls>>

\* v2.1.0: bstPrice / addPrice = await getItemPrice(qb, ...)
FetchPrices ==
  /\ pc = "prices"
  /\ \E b \in ItemLookups, a \in ItemLookups :
       prices' = [bst |-> getItemPrice("BST", b), add |-> getItemPrice("ADD", a)]
  /\ pc' = "customer"
  /\ UNCHANGED <<environment, otherWebhooks, version, stripeEnv, booking, stripePayment, flow, ledger,
                 calls, result>>

\* const customer = await findOrCreateCustomer(qb, {...});
\* v2.0.1 then takes DEFAULT_BST_PRICE / DEFAULT_ADD_PRICE
FindOrCreateCustomer ==
  /\ pc = "customer"
  /\ \E ok \in BOOLEAN :
       IF ok
         THEN /\ pc' = "stripe"
              /\ prices' = IF version = "v2.0.1"
                             THEN [bst |-> Dollars(DEFAULT_BST_PRICE),
                                   add |-> Dollars(DEFAULT_ADD_PRICE)]
                             ELSE prices
              /\ UNCHANGED result
         ELSE Fail /\ UNCHANGED prices
  /\ UNCHANGED <<environment, otherWebhooks, version, stripeEnv, booking, stripePayment, flow, ledger,
                 calls>>

FlowEntry(f, v) ==
  CASE f = "PAYLATER" -> "paylater_invoice"
    [] f = "SIMPLE_PAID" -> "simple_receipt"
    [] f = "PAID_WITH_DISCOUNT" -> "discount_receipt"
    [] f = "PARTIAL_PAYMENT" ->
         IF v = "v2.1.0" THEN "partial_invoice" ELSE "partial_receipt"

\* const stripePayment = await findPaymentByEmail(booking.email, 60);
\* then the if / else-if chain that sets flow
LookupPayment ==
  /\ pc = "stripe"
  /\ stripePayment' = findPaymentByEmail(booking.email, stripeEnv)
  /\ IF stripePayment'.threw
       THEN Fail /\ UNCHANGED flow
       ELSE /\ flow' = DetermineFlow(stripePayment', booking)
            /\ pc' = FlowEntry(flow', version)
            /\ UNCHANGED result
  /\ UNCHANGED <<environment, otherWebhooks, version, stripeEnv, booking, prices, ledger, calls>>


(***************************************************************************)
(* The flows                                                               *)
(***************************************************************************)
\* what sendInvoice resolves to: qb.sendInvoicePdf's answer, or null when it
\* reports an error
SendOutcomes == {"sent", "null"}

\* if (sendResult) invoiceSent = true
InvoiceSentFlag(outcome) == outcome = "sent"

\* does a failed send reject the handler's promise?  sendInvoice resolves
\* null on error and never rejects
SendFailureIsFatalWhenNotSent(outcome) == outcome # "sent"

SendFailureIsFatal(outcome) == FALSE

LastInvoiceId(docs) ==
  LET ids == {i \in DOMAIN docs : docs[i].kind = "Invoice"}
  IN IF ids = {} THEN 0 ELSE CHOOSE i \in ids : \A j \in ids : j <= i

\* invoice.TotalAmt of the invoice the handler holds
InvoiceTotal(docs) ==
  IF LastInvoiceId(docs) = 0 THEN 0
  ELSE TotalAmt(docs[LastInvoiceId(docs)].lines)

Success(type, total, balanceDue, sent, paymentAmount) ==
  [status |-> "success", type |-> type, total |-> total,
   balanceDue |-> balanceDue, invoiceSent |-> sent,
   paymentAmount |-> paymentAmount]

\* one await of a create call: the document is appended and the handler moves
\* to next, or the call rejects and the handler's catch answers 500
CreateStepSwallowingFailure(at, op, kind, lines, amount, linked, next) ==
  /\ pc = at
  /\ \E ok \in BOOLEAN :
       /\ calls' = Append(calls, Call(op, ok))
       /\ ledger' = IF ok THEN Append(ledger, Doc(kind, lines, amount, linked,
                                              DueDateOf(kind, today)))
                          ELSE ledger
       /\ pc' = next
       /\ UNCHANGED result
  /\ UNCHANGED <<environment, otherWebhooks, version, stripeEnv, booking, prices, stripePayment, flow>>

CreateStep(at, op, kind, lines, amount, linked, next) ==
  /\ pc = at
  /\ \E ok \in BOOLEAN :
       /\ calls' = Append(calls, Call(op, ok))
       /\ IF ok
            THEN /\ ledger' = Append(ledger, Doc(kind, lines, amount, linked,
                                              DueDateOf(kind, today)))
                 /\ pc' = next
                 /\ UNCHANGED result
            ELSE Fail /\ UNCHANGED ledger
  /\ UNCHANGED <<environment, otherWebhooks, version, stripeEnv, booking, prices, stripePayment, flow>>

\* one send attempt that ends the handler with the given success result
SendStep(at, type, balanceDue, paymentAmount) ==
  /\ pc = at
  /\ \E outcome \in SendOutcomes :
       /\ calls' = Append(calls, Call("sendInvoicePdf", outcome = "sent"))
       /\ IF SendFailureIsFatal(outcome)
            THEN Fail
            ELSE /\ pc' = "done"
                 /\ result' = Success(type, InvoiceTotal(ledger),
                                      balanceDue, InvoiceSentFlag(outcome),
                                      paymentAmount)
  /\ UNCHANGED <<environment, otherWebhooks, version, stripeEnv, booking, prices, stripePayment, flow,
                 ledger>>

\* Flow 1: handlePaylater
PaylaterCreateInvoice ==
  /\ CreateStep("paylater_invoice", "createInvoice", "Invoice",
             PaylaterLines(booking, prices.bst, prices.add), 0, 0,
             "paylater_send")

PaylaterSend ==
  /\ SendStep("paylater_send", "Invoice", 0, 0)

\* Flow 2: handleSimplePaid
SimplePaidCreateReceipt ==
  /\ CreateStep("simple_receipt", "createSalesReceipt", "SalesReceipt",
                SimplePaidLines(stripePayment), 0, 0, "simple_done")

\* Flow 3: handlePaidWithDiscount
PaidWithDiscountCreateReceipt ==
  /\ CreateStep("discount_receipt", "createSalesReceipt", "SalesReceipt",
                PaidWithDiscountLines(stripePayment), 0, 0, "discount_done")

\* return { type: 'SalesReceipt', docNumber, total: receipt.TotalAmt, ... }
ReturnReceipt ==
  /\ pc \in {"simple_done", "discount_done"}
  /\ pc' = "done"
  /\ result' = Success("SalesReceipt", TotalAmt(ledger[Len(ledger)].lines),
                       0, FALSE, 0)
  /\ UNCHANGED <<environment, otherWebhooks, version, stripeEnv, booking, prices, stripePayment, flow,
                 ledger, calls>>

\* Flow 4, v2.1.0: handlePartialPayment
PartialCreateInvoice ==
  /\ CreateStep("partial_invoice", "createInvoice", "Invoice",
             PartialInvoiceLines(booking, stripePayment, prices.add), 0, 0,
             "partial_payment")

\* if (balanceDue > 0) { try { await sendInvoice(...) } ... }
PartialSendGuard(balanceDue) == balanceDue > 0

PartialCreatePayment ==
  /\ CreateStep("partial_payment", "createPayment", "Payment", <<>>,
             centsToDollars(stripePayment.amountPaid), LastInvoiceId(ledger),
             IF PartialSendGuard(PartialBalanceDue(booking, stripePayment,
                                                   prices.add))
               THEN "partial_send" ELSE "partial_return")

PartialSend ==
  /\ SendStep("partial_send", "Invoice+Payment",
           PartialBalanceDue(booking, stripePayment, prices.add),
           centsToDollars(stripePayment.amountPaid))

PartialReturnUnsent ==
  /\ pc = "partial_return"
  /\ pc' = "done"
  /\ result' = Success("Invoice+Payment", InvoiceTotal(ledger),
                       PartialBalanceDue(booking, stripePayment, prices.add),
                       FALSE, centsToDollars(stripePayment.amountPaid))
  /\ UNCHANGED <<environment, otherWebhooks, version, stripeEnv, booking, prices, stripePayment, flow,
                 ledger, calls>>

\* Flow 4, v2.0.1: handlePartialPayment
PartialCreateReceipt ==
  /\ CreateStep("partial_receipt", "createSalesReceipt", "SalesReceipt",
             PartialReceiptLines(stripePayment), 0, 0,
             "partial_extras_invoice")

PartialCreateExtrasInvoice ==
  /\ CreateStep("partial_extras_invoice", "createInvoice", "Invoice",
             PartialExtrasInvoiceLines(booking, stripePayment, prices.add),
             0, 0, "partial_extras_send")

PartialExtrasSend ==
  /\ SendStep("partial_extras_send", "SalesReceipt+Invoice",
           PartialExtrasBalance(booking, stripePayment, prices.add), 0)

Next ==
  \/ IgnoreForeign
  \/ ReceiveBooking
  \/ GetQBClient
  \/ FetchPrices
  \/ FindOrCreateCustomer
  \/ LookupPayment
  \/ PaylaterCreateInvoice
  \/ PaylaterSend
  \/ SimplePaidCreateReceipt
  \/ PaidWithDiscountCreateReceipt
  \/ ReturnReceipt
  \/ PartialCreateInvoice
  \/ PartialCreatePayment
  \/ PartialSend
  \/ PartialReturnUnsent
  \/ PartialCreateReceipt
  \/ PartialCreateExtrasInvoice
  \/ PartialExtrasSend

Spec == Init /\ [][Next]_vars

(***************************************************************************)
(* findPaymentByEmail on its own, over lookback windows longer than the    *)
(* page a list call returns                                                *)
(***************************************************************************)
\* the candidates of the booking's customer behind n records of other
\* customers; n is 0 or around the list limit
LookupEnvs ==
  LET OtherSession ==
        [customer_details_email |-> <<"c">>, customer_email |-> <<>>,
         amount_subtotal |-> 175000, amount_total |-> 175000,
         discounts |-> <<>>]
      OtherCharge ==
        [billing_email |-> <<"c">>, receipt_email |-> <<>>, amount |-> 175000]
      Repeat(x, n) == [i \in 1..n |-> x]
      SeqsUpTo2(S) ==
        {<<>>} \cup {<<x>> : x \in S} \cup {<<x, y>> : x \in S, y \in S}
      CandidateSessions ==
        { [customer_details_email |-> <<"A">>, customer_email |-> <<>>,
           amount_subtotal |-> 175000, amount_total |-> 175000,
           discounts |-> <<>>],
          [customer_details_email |-> <<>>, customer_email |-> <<"b">>,
           amount_subtotal |-> 50000, amount_total |-> 50000,
           discounts |-> <<>>],
          [customer_details_email |-> <<>>, customer_email |-> <<>>,
           amount_subtotal |-> 9900, amount_total |-> 9900,
           discounts |-> <<>>] }
      CandidateCharges ==
        { [billing_email |-> <<"a">>, receipt_email |-> <<>>, amount |-> 175000],
          [billing_email |-> <<>>, receipt_email |-> <<"B">>, amount |-> 50000] }
      FillCounts(limit) == {0} \cup ((limit - 1)..(limit - 1 + MaxOverflow))
      SessionWindows ==
        { Repeat(OtherSession, n) \o tail :
            n \in FillCounts(SessionListLimit),
            tail \in SeqsUpTo2(CandidateSessions) }
      ChargeWindows ==
        { Repeat(OtherCharge, n) \o tail :
            n \in FillCounts(ChargeListLimit),
            tail \in SeqsUpTo2(CandidateCharges) }
  IN { [configured |-> TRUE, ctorRejectsNoKey |-> TRUE, reachable |-> TRUE,
        sessions |-> ss, charges |-> cs] :
         ss \in SessionWindows, cs \in ChargeWindows }

InitLookup ==
  /\ version = "v2.1.0"
  /\ eventDate \in EventDates
  /\ today \in ProcessingDays(eventDate)
  /\ settings = AllConfigured
  /\ payload = Unused
  /\ order = Unused
  /\ product = Unused
  /\ mapping = Unused
  /\ usage = Unused
  /\ results = Unused
  /\ stripeEnv \in LookupEnvs
  /\ pc = "idle"
  /\ booking = NoBooking
  /\ prices = [bst |-> 0, add |-> 0]
  /\ stripePayment = WithChargeSearch(NotFound, FALSE)
  /\ flow = "none"
  /\ ledger = <<>>
  /\ calls = <<>>
  /\ result = NoResult

\* await findPaymentByEmail(booking.email, 60)
FindPayment ==
  /\ pc = "idle"
  /\ \E email \in BookingEmails :
       /\ booking' = [email |-> email, additionalTeamMembers |-> 0]
       /\ stripePayment' = findPaymentByEmail(email, stripeEnv)
  /\ pc' = "done"
  /\ UNCHANGED <<environment, otherWebhooks, version, stripeEnv, prices, flow, ledger, calls, result>>

NextLookup == FindPayment

SpecLookup == InitLookup /\ [][NextLookup]_vars


(***************************************************************************)
(* handlePaidWithDiscount with the discount item reference configured or   *)
(* not: v2.0.0 tests process.env.QB_ITEM_DISCOUNT, v2.0.1 writes           *)
(* String(process.env.QB_ITEM_DISCOUNT) into the line                      *)
(***************************************************************************)
\* v2.0.0: if (discountAmount > 0 && process.env.QB_ITEM_DISCOUNT) push the
\* discount line; else only a console warning
PaidWithDiscountLinesV200(payment, env) ==
  <<Line("BST", 1, centsToDollars(payment.subtotal))>> \o
  (IF payment.discountAmount > 0 /\ env.QB_ITEM_DISCOUNT
     THEN <<Line("DISCOUNT", 1, -centsToDollars(payment.discountAmount))>>
     ELSE <<>>)

\* is the ItemRef a line carries a configured item of the ledger?
RefConfigured(item, env) ==
  CASE item = "BST" -> env.QB_ITEM_BST
    [] item = "ADD" -> env.QB_ITEM_ADD
    [] item = "DISCOUNT" -> env.QB_ITEM_DISCOUNT
    [] OTHER -> FALSE

\* QuickBooks rejects a document that names an item it does not know
\* (ItemRef value "undefined")
LedgerAccepts(lines, env) ==
  \A i \in DOMAIN lines : RefConfigured(lines[i].item, env)

InitDiscountReceipt ==
  /\ version \in {"v2.0.0", "v2.0.1"}
  /\ stripeEnv = [configured |-> TRUE, ctorRejectsNoKey |-> TRUE,
                  reachable |-> TRUE, sessions |-> <<>>, charges |-> <<>>]
  /\ booking \in {[email |-> e, additionalTeamMembers |-> 0] :
                    e \in BookingEmails}
  /\ prices = [bst |-> Dollars(DEFAULT_BST_PRICE),
               add |-> Dollars(DEFAULT_ADD_PRICE)]
  /\ stripePayment \in
       { WithChargeSearch(extractSessionDetails(x), FALSE) :
           x \in SessionsFor(StripeEmailPairs) }
  /\ flow = DetermineFlow(stripePayment, booking)
  /\ flow = "PAID_WITH_DISCOUNT"
  /\ pc = "discount_receipt"
  /\ ledger = <<>>
  /\ calls = <<>>
  /\ result = NoResult
  /\ eventDate \in EventDates
  /\ today \in ProcessingDays(eventDate)
  /\ settings \in
       { [QB_ITEM_BST |-> TRUE, QB_ITEM_ADD |-> TRUE, QB_ITEM_DISCOUNT |-> d] :
           d \in BOOLEAN }
  /\ payload = Unused
  /\ order = Unused
  /\ product = Unused
  /\ mapping = Unused
  /\ usage = Unused
  /\ results = Unused

\* const receipt = await createSalesReceipt(qb, receiptData)
CreateDiscountReceipt ==
  /\ pc = "discount_receipt"
  /\ LET lines == IF version = "v2.0.0"
                    THEN PaidWithDiscountLinesV200(stripePayment, settings)
                    ELSE PaidWithDiscountLines(stripePayment)
     IN \E ok \in {b \in BOOLEAN : b => LedgerAccepts(lines, settings)} :
          /\ calls' = Append(calls, Call("createSalesReceipt", ok))
          /\ IF ok
               THEN /\ ledger' = Append(ledger,
                                   Doc("SalesReceipt", lines, 0, 0, NoDate))
                    /\ pc' = "discount_done"
                    /\ UNCHANGED result
               ELSE Fail /\ UNCHANGED ledger
  /\ UNCHANGED <<environment, otherWebhooks, version, stripeEnv, booking,
                 prices, stripePayment, flow>>

NextDiscountReceipt ==
  \/ CreateDiscountReceipt
  \/ ReturnReceipt

SpecDiscountReceipt == InitDiscountReceipt /\ [][NextDiscountReceipt]_vars


(***************************************************************************)
(* lib/product-map.js : the catalog and mapProductToQuickBooks             *)
(***************************************************************************)
\* PRODUCT_MAP in declaration order (Object.entries); an item id is
\* process.env.QB_ITEM_... || null
PRODUCT_MAP(env) ==
  << [key |-> "building-strong-teams",
      keywords |->
        << <<"b", "u", "i", "l", "d", "i", "n", "g", " ", "s", "t", "r", "o",
        "n", "g", " ", "t", "e", "a", "m", "s">>,
        <<"s", "t", "r", "o", "n", "g", " ", "t", "e", "a", "m", "s">>,
        <<"b", "s", "t">> >>,
      sku |-> <<"B", "S", "T", "-", "0", "0", "1">>,
      qbItemId |-> IF env.QB_ITEM_BST THEN "BST" ELSE "null",
      qbItemName |-> <<"B", "u", "i", "l", "d", "i", "n", "g", " ", "S", "t", "r",
          "o", "n", "g", " ", "T", "e", "a", "m", "s">>,
      defaultPrice |-> Dollars(1750)],
     [key |-> "additional-team-member",
      keywords |->
        << <<"a", "d", "d", "i", "t", "i", "o", "n", "a", "l", " ", "t", "e",
        "a", "m", " ", "m", "e", "m", "b", "e", "r">>,
        <<"e", "x", "t", "r", "a", " ", "m", "e", "m", "b", "e", "r">>,
        <<"a", "d", "d", " ", "m", "e", "m", "b", "e", "r">>,
        <<"a", "d", "d", "i", "t", "i", "o", "n", "a", "l", " ", "m", "e",
        "m", "b", "e", "r">> >>,
      sku |-> <<"B", "S", "T", "-", "A", "D", "D">>,
      qbItemId |-> IF env.QB_ITEM_ADD THEN "ADD" ELSE "null",
      qbItemName |-> <<"S", "t", "r", "o", "n", "g", " ", "T", "e", "a", "m", "s",
          " ", "-", " ", "A", "d", "d", "i", "t", "i", "o", "n", "a", "l",
          " ", "T", "e", "a", "m", " ", "M", "e", "m", "b", "e", "r">>,
      defaultPrice |-> Dollars(99)] >>

First(hits) == CHOOSE i \in hits : \A j \in hits : i <= j

MatchedMapping(entry, by) ==
  [qbItemId |-> entry.qbItemId, qbItemName |-> entry.qbItemName,
   defaultPrice |-> entry.defaultPrice, matched |-> TRUE, matchedBy |-> by,
   matchedKey |-> entry.key]

Unmapped(productName) ==
  [qbItemId |-> "null", qbItemName |-> productName, defaultPrice |-> 0,
   matched |-> FALSE, matchedBy |-> "null", matchedKey |-> "null"]

\* skuLower && product.sku && product.sku.toLowerCase() === skuLower
SkuHits(sku, map) ==
  LET skuLower == trim(toLowerCase(sku))
  IN {i \in DOMAIN map : /\ skuLower # <<>>
                         /\ map[i].sku # <<>>
                         /\ toLowerCase(map[i].sku) = skuLower}

\* product.keywords.some(keyword => nameLower.includes(keyword.toLowerCase()))
KeywordHits(productName, map) ==
  LET nameLower == trim(toLowerCase(productName))
  IN {i \in DOMAIN map :
        \E k \in DOMAIN map[i].keywords :
          includes(nameLower, toLowerCase(map[i].keywords[k]))}

mapProductKeywordFirst(productName, sku, env) ==
  LET map == PRODUCT_MAP(env)
      bySku == SkuHits(sku, map)
      byKeyword == KeywordHits(productName, map)
  IN IF byKeyword # {} THEN MatchedMapping(map[First(byKeyword)], "keyword")
     ELSE IF bySku # {} THEN MatchedMapping(map[First(bySku)], "sku")
     ELSE Unmapped(productName)

mapProductToQuickBooks(productName, sku, env) ==
  LET map == PRODUCT_MAP(env)
      bySku == SkuHits(sku, map)
      byKeyword == KeywordHits(productName, map)
  IN IF bySku # {} THEN MatchedMapping(map[First(bySku)], "sku")
     ELSE IF byKeyword # {} THEN MatchedMapping(map[First(byKeyword)], "keyword")
     ELSE Unmapped(productName)

ProductNames ==
  { <<"B", "u", "i", "l", "d", "i", "n", "g", " ", "S", "t", "r", "o",
      "n", "g", " ", "T", "e", "a", "m", "s">>,
    <<"A", "d", "d", "i", "t", "i", "o", "n", "a", "l", " ", "T", "e",
      "a", "m", " ", "M", "e", "m", "b", "e", "r">>,
    <<"S", "t", "r", "o", "n", "g", " ", "T", "e", "a", "m", "s", " ",
      "-", " ", "A", "d", "d", "i", "t", "i", "o", "n", "a", "l", " ", "T",
      "e", "a", "m", " ", "M", "e", "m", "b", "e", "r">>,
    <<"G", "i", "f", "t", " ", "C", "a", "r", "d">>,
    <<>>,
    <<" ", "B", "S", "T", " ">> }

ProductSkus ==
  { <<>>,
    <<"B", "S", "T", "-", "0", "0", "1">>,
    <<"B", "S", "T", "-", "A", "D", "D">>,
    <<"b", "s", "t", "-", "a", "d", "d">>,
    <<" ", "B", "S", "T", "-", "0", "0", "1", " ">>,
    <<"G", "I", "F", "T", "-", "1">> }

ItemSettings ==
  { [QB_ITEM_BST |-> b, QB_ITEM_ADD |-> a, QB_ITEM_DISCOUNT |-> TRUE] :
      b \in BOOLEAN, a \in BOOLEAN }

InitCatalog ==
  /\ product \in {[name |-> n, sku |-> k] : n \in ProductNames, k \in ProductSkus}
  /\ mapping = Unmapped(<<>>)
  /\ settings \in ItemSettings
  /\ pc = "idle"
  /\ version = "v2.1.0"
  /\ stripeEnv = Unused
  /\ booking = NoBooking
  /\ prices = [bst |-> 0, add |-> 0]
  /\ stripePayment = WithChargeSearch(NotFound, FALSE)
  /\ flow = "none"
  /\ ledger = <<>>
  /\ calls = <<>>
  /\ result = NoResult
  /\ eventDate \in EventDates
  /\ today = eventDate
  /\ payload = Unused
  /\ order = Unused
  /\ usage = Unused
  /\ results = Unused

\* const qbMapping = mapProductToQuickBooks(item.name, item.sku)
MapProduct ==
  /\ pc = "idle"
  /\ mapping' = mapProductToQuickBooks(product.name, product.sku, settings)
  /\ pc' = "done"
  /\ UNCHANGED <<environment, payload, order, product, usage, results,
                 version, stripeEnv, booking, prices, stripePayment, flow,
                 ledger, calls, result>>

NextCatalog == MapProduct

SpecCatalog == InitCatalog /\ [][NextCatalog]_vars


(***************************************************************************)
(* lib/parse-order.js v1.2.0 : the WooCommerce order parser                *)
(***************************************************************************)
\* a || b on numbers: 0 and NaN are falsy
OrElse(a, b) == IF a # 0 THEN a ELSE b

PaylaterCodes ==
  { <<"p", "a", "y", "l", "a", "t", "e", "r">>,
    <<"p", "a", "y", "-", "l", "a", "t", "e", "r">>,
    <<"p", "a", "y", "_", "l", "a", "t", "e", "r">> }

\* coupons.some(coupon => code === 'paylater' || 'pay-later' || 'pay_later')
hasPaylaterCoupon(p) ==
  \E i \in DOMAIN p.coupon_lines :
    trim(toLowerCase(p.coupon_lines[i].code)) \in PaylaterCodes

\* discount > 0 && lineSubtotal > 0 && discount >= lineSubtotal * 0.99
hasFullDiscount(p) ==
  LET lineSubtotal ==
        SumSeq([k \in DOMAIN p.line_items |-> p.line_items[k].subtotal])
  IN \E i \in DOMAIN p.coupon_lines :
       /\ p.coupon_lines[i].discount > 0
       /\ lineSubtotal > 0
       /\ p.coupon_lines[i].discount * 100 >= lineSubtotal * 99

detectPaylaterIgnoringTotal(p) == hasPaylaterCoupon(p) \/ hasFullDiscount(p)

detectPaylater(p) ==
  LET totalIsZero == p.total = 0
  IN hasPaylaterCoupon(p) \/ (totalIsZero /\ hasFullDiscount(p))

extractDiscount(p) ==
  IF Len(p.coupon_lines) = 0 \/ p.discount_total = 0
    THEN [hasDiscount |-> FALSE, code |-> <<>>, amount |-> 0]
    ELSE [hasDiscount |-> TRUE,
          code |-> p.coupon_lines[1].code,
          amount |-> OrElse(p.coupon_lines[1].discount, p.discount_total)]

linePricesFromOrder(isPaylater, qbMapping, discount, item, quantity) ==
  IF discount.hasDiscount
    THEN [unitPrice |-> OrElse(OrElse(item.subtotal \div quantity, item.price), 0),
          total |-> OrElse(item.subtotal, 0)]
    ELSE [unitPrice |-> OrElse(item.price, 0), total |-> OrElse(item.total, 0)]

\* let unitPrice, total;  (the three pricing branches)
linePrices(isPaylater, qbMapping, discount, item, quantity) ==
  IF isPaylater /\ qbMapping.matched /\ qbMapping.defaultPrice > 0
    THEN [unitPrice |-> qbMapping.defaultPrice,
          total |-> qbMapping.defaultPrice * quantity]
  ELSE IF discount.hasDiscount
    THEN [unitPrice |-> OrElse(OrElse(item.subtotal \div quantity, item.price), 0),
          total |-> OrElse(item.subtotal, 0)]
    ELSE [unitPrice |-> OrElse(item.price, 0), total |-> OrElse(item.total, 0)]

parseLineItem(item, isPaylater, discount, env) ==
  LET qbMapping == mapProductToQuickBooks(item.name, item.sku, env)
      quantity == OrElse(item.quantity, 1)
      money == linePrices(isPaylater, qbMapping, discount, item, quantity)
  IN [name |-> item.name, sku |-> item.sku, quantity |-> quantity,
      unitPrice |-> money.unitPrice, total |-> money.total,
      discountedTotal |-> OrElse(item.total, 0),
      qbItemId |-> qbMapping.qbItemId, qbItemName |-> qbMapping.qbItemName]

\* throw new Error('Invalid WooCommerce payload: missing billing email')
ParseThrows(p) == p.email = <<>>

\* dateCreated: payload.date_created || new Date().toISOString()
parseWooCommerceOrder(p, env, now) ==
  LET isPaylater == detectPaylater(p)
      discount == extractDiscount(p)
      lineItems == [i \in DOMAIN p.line_items |->
                      parseLineItem(p.line_items[i], isPaylater, discount, env)]
      subtotal == SumSeq([k \in DOMAIN lineItems |-> lineItems[k].total])
  IN [email |-> p.email, status |-> p.status, lineItems |-> lineItems,
      subtotal |-> subtotal,
      dateCreated |-> IF p.date_created # NoDate THEN p.date_created ELSE now,
      total |-> IF isPaylater THEN subtotal ELSE OrElse(p.total, subtotal),
      discount |-> discount, isPaylater |-> isPaylater]

\* order payloads as WooCommerce sends them: a cart of products at the
\* store's prices, percentage coupons spread over the lines
Carts ==
  LET line(name, sku, listPrice, quantity) ==
        [name |-> name, sku |-> sku, listPrice |-> listPrice,
         quantity |-> quantity]
      bstName ==
        <<"B", "u", "i", "l", "d", "i", "n", "g", " ", "S", "t", "r", "o", "n",
        "g", " ", "T", "e", "a", "m", "s">>
      addName ==
        <<"A", "d", "d", "i", "t", "i", "o", "n", "a", "l", " ", "T", "e", "a",
        "m", " ", "M", "e", "m", "b", "e", "r">>
      bst == line(bstName, <<"B", "S", "T", "-", "0", "0", "1">>, Dollars(1750), 1)
      bstSale == line(bstName, <<>>, Dollars(1500), 1)
      add == line(addName, <<"B", "S", "T", "-", "A", "D", "D">>, Dollars(99), 2)
      gift == line(<<"G", "i", "f", "t", " ", "C", "a", "r", "d">>,
                   <<"G", "I", "F", "T", "-", "1">>, Dollars(25), 1)
  IN { <<bst>>, <<bstSale>>, <<bst, add>>, <<bst, gift>>, <<gift>> }

CouponSets ==
  LET coupon(code, percent) == [code |-> code, percent |-> percent]
  IN { <<>>,
       <<coupon(<<"p", "a", "y", "l", "a", "t", "e", "r">>, 100)>>,
       <<coupon(<<" ", "P", "a", "y", "L", "a", "t", "e", "r", " ">>, 100)>>,
       <<coupon(<<"p", "a", "y", "-", "l", "a", "t", "e", "r">>, 100)>>,
       <<coupon(<<"p", "a", "y", "_", "l", "a", "t", "e", "r">>, 100)>>,
       <<coupon(<<"s", "a", "v", "e", "1", "0">>, 10)>>,
       <<coupon(<<"f", "r", "e", "e">>, 100)>>,
       <<coupon(<<"a", "l", "m", "o", "s", "t">>, 99)>>,
       <<coupon(<<"h", "a", "l", "f">>, 50), coupon(<<"m", "o", "r", "e">>, 50)>> }

WooPayload(cart, coupons, status, email) ==
  LET Percent(amount, percent) == (amount * percent) \div 100
      off == SumSeq([k \in DOMAIN coupons |-> coupons[k].percent])
      items == [i \in DOMAIN cart |->
                  LET sub == cart[i].listPrice * cart[i].quantity
                      tot == sub - Percent(sub, off)
                  IN [name |-> cart[i].name, sku |-> cart[i].sku,
                      quantity |-> cart[i].quantity,
                      subtotal |-> sub, total |-> tot,
                      price |-> tot \div cart[i].quantity]]
      cartSubtotal == SumSeq([k \in DOMAIN items |-> items[k].subtotal])
      lines == [i \in DOMAIN coupons |->
                  [code |-> coupons[i].code,
                   discount |-> Percent(cartSubtotal, coupons[i].percent)]]
  IN [status |-> status, email |-> email, line_items |-> items,
      coupon_lines |-> lines,
      discount_total |-> SumSeq([k \in DOMAIN lines |-> lines[k].discount]),
      total |-> SumSeq([k \in DOMAIN items |-> items[k].total])]

\* date_created is the order's day, or absent (NoDate)
OrderPayloads ==
  { [date_created |-> created] @@ WooPayload(cart, coupons, status, email) :
      cart \in Carts, coupons \in CouponSets,
      status \in {"completed", "processing"}, email \in {<<"a">>, <<>>},
      created \in EventDates \cup {NoDate} }


(***************************************************************************)
(* api/woo-qb-sync.js v1.4.0 : the WooCommerce order webhook               *)
(***************************************************************************)
\* ItemRef: { value: String(item.qbItemId || process.env.QB_ITEM_BST) }
OrderLine(item, env) ==
  [item |-> IF item.qbItemId # "null" THEN item.qbItemId
            ELSE IF env.QB_ITEM_BST THEN "BST" ELSE "undefined",
   qty |-> item.quantity,
   amount |-> item.total, unitPrice |-> item.unitPrice,
   description |-> item.name]

\* buildInvoiceData(qbCustomer, order).Line
buildInvoiceData(o, env) ==
  [i \in DOMAIN o.lineItems |-> OrderLine(o.lineItems[i], env)]

\* buildSalesReceiptData(qbCustomer, order).Line
buildSalesReceiptData(o, env) ==
  [i \in DOMAIN o.lineItems |-> OrderLine(o.lineItems[i], env)]

OrderResponse(success, skipped, isPaylater, error) ==
  [success |-> success, skipped |-> skipped, isPaylater |-> isPaylater,
   error |-> error]

\* catch (error) { return res.status(200).json({ success: false, error }) }
OrderFail(message) ==
  /\ pc' = "done"
  /\ result' = OrderResponse(FALSE, FALSE, FALSE, message)

OrderSuccess ==
  /\ pc' = "done"
  /\ result' = OrderResponse(TRUE, FALSE, order.isPaylater, "none")

NoOrder == [isPaylater |-> FALSE, lineItems |-> <<>>]

InitOrder ==
  /\ payload \in OrderPayloads
  /\ order = NoOrder
  /\ settings \in ItemSettings
  /\ eventDate \in EventDates
  /\ today \in ProcessingDays(eventDate)
  /\ pc = "idle"
  /\ ledger = <<>>
  /\ calls = <<>>
  /\ result = NoResult
  /\ version = "v1.4.0"
  /\ stripeEnv = Unused
  /\ booking = NoBooking
  /\ prices = [bst |-> 0, add |-> 0]
  /\ stripePayment = WithChargeSearch(NotFound, FALSE)
  /\ flow = "none"
  /\ product = Unused
  /\ mapping = Unused
  /\ usage = Unused
  /\ results = Unused

\* if (orderStatus !== 'completed') return 200 { success: true, skipped: true }
SkipOrder ==
  /\ pc = "idle"
  /\ payload.status # "completed"
  /\ pc' = "done"
  /\ result' = OrderResponse(TRUE, TRUE, FALSE, "none")
  /\ UNCHANGED <<environment, payload, order, product, mapping, usage, results,
                 version, stripeEnv, booking, prices, stripePayment, flow,
                 ledger, calls>>

\* const order = parseWooCommerceOrder(req.body)
ParseOrder ==
  /\ pc = "idle"
  /\ payload.status = "completed"
  /\ IF ParseThrows(payload)
       THEN OrderFail("missing billing email") /\ UNCHANGED order
       ELSE /\ order' = parseWooCommerceOrder(payload, settings, today)
            /\ pc' = "order_client"
            /\ UNCHANGED result
  /\ UNCHANGED <<environment, payload, product, mapping, usage, results,
                 version, stripeEnv, booking, prices, stripePayment, flow,
                 ledger, calls>>

OrderBranchAlwaysReceipt(isPaylater) == "order_receipt"

\* if (order.isPaylater) { ... } else { ... }
OrderBranch(isPaylater) ==
  IF isPaylater THEN "order_invoice" ELSE "order_receipt"

\* const qb = await getQBClient();
\* const qbCustomer = await findOrCreateCustomer(qb, order.customer)
OrderCustomer ==
  /\ pc = "order_client"
  /\ \E ok \in BOOLEAN :
       IF ok
         THEN /\ pc' = OrderBranch(order.isPaylater)
              /\ UNCHANGED result
         ELSE OrderFail("quickbooks")
  /\ UNCHANGED <<environment, otherWebhooks, version, stripeEnv, booking,
                 prices, stripePayment, flow, ledger, calls>>

\* one create call of the order handler: QuickBooks rejects lines whose
\* item reference it does not know; a rejection lands in the catch
OrderCreate(at, op, kind, lines, next) ==
  /\ pc = at
  /\ \E ok \in {b \in BOOLEAN : b => LedgerAccepts(lines, settings)} :
       /\ calls' = Append(calls, Call(op, ok))
       /\ IF ok
            THEN /\ ledger' = Append(ledger, Doc(kind, lines, 0, 0,
                                                 DueDateOf(kind, today)))
                 /\ next
            ELSE OrderFail("quickbooks") /\ UNCHANGED ledger
  /\ UNCHANGED <<environment, otherWebhooks, version, stripeEnv, booking,
                 prices, stripePayment, flow>>

\* const invoice = await createInvoice(qb, buildInvoiceData(qbCustomer, order))
OrderCreateInvoice ==
  OrderCreate("order_invoice", "createInvoice", "Invoice",
              buildInvoiceData(order, settings),
              pc' = "order_send" /\ UNCHANGED result)

\* const sendResult = await sendInvoice(qb, invoice.Id, order.customer.email)
OrderSendInvoice ==
  /\ pc = "order_send"
  /\ \E outcome \in SendOutcomes :
       /\ calls' = Append(calls, Call("sendInvoicePdf", outcome = "sent"))
       /\ IF SendFailureIsFatal(outcome)
            THEN OrderFail("send")
            ELSE OrderSuccess
  /\ UNCHANGED <<environment, otherWebhooks, version, stripeEnv, booking,
                 prices, stripePayment, flow, ledger>>

\* const receipt = await createSalesReceipt(qb, buildSalesReceiptData(...))
OrderCreateReceipt ==
  OrderCreate("order_receipt", "createSalesReceipt", "SalesReceipt",
              buildSalesReceiptData(order, settings), OrderSuccess)

NextOrder ==
  \/ SkipOrder
  \/ ParseOrder
  \/ OrderCustomer
  \/ OrderCreateInvoice
  \/ OrderSendInvoice
  \/ OrderCreateReceipt

SpecOrder == InitOrder /\ [][NextOrder]_vars


(***************************************************************************)
(* lib/ids-api.js and api/ids-monthly-invoice.js : monthly usage invoicing *)
(***************************************************************************)
billableIsTotal(total, optionValue, createdInBillingMonth, isInterview) ==
  total

calculateBillable(total, optionValue, createdInBillingMonth, isInterview) ==
  IF isInterview THEN total
  ELSE IF createdInBillingMonth
    THEN (IF total - optionValue >= 0 THEN total - optionValue ELSE 0)
  ELSE total

\* ccTo.split(/[,\r\n]+/); the empty pieces are filtered out by the caller
RECURSIVE Pieces(_)
Pieces(s) ==
  IF s = <<>> THEN << <<>> >>
  ELSE LET rest == Pieces(Tail(s))
       IN IF Head(s) \in {",", "\n", "\r"}
            THEN << <<>> >> \o rest
            ELSE << <<Head(s)>> \o Head(rest) >> \o Tail(rest)

parseLeaderEmail(ccTo) ==
  IF ccTo = <<>> THEN <<>>
  ELSE LET AdminEmail ==
             <<"a", "d", "m", "i", "n", "@", "b", "a", "s", "l", "e", "r",
               "a", "c", "a", "d", "e", "m", "y", ".", "c", "o", "m">>
           pieces == Pieces(ccTo)
           emails == SelectSeq([i \in DOMAIN pieces |->
                                  toLowerCase(trim(pieces[i]))],
                               LAMBDA e : e # <<>> /\ includes(e, <<"@">>))
           leaderEmails == SelectSeq(emails, LAMBDA e : e # AdminEmail)
       IN IF leaderEmails = <<>> THEN <<>> ELSE leaderEmails[1]

TestWord == <<"t", "e", "s", "t">>

MarketingWord == <<"m", "a", "r", "k", "e", "t", "i", "n", "g">>

isExcludedNameCaseSensitive(name) ==
  includes(name, TestWord) \/ includes(name, MarketingWord)

\* linkNameLower.includes('test') || linkNameLower.includes('marketing')
isExcludedName(name) ==
  LET linkNameLower == toLowerCase(name)
  IN includes(linkNameLower, TestWord) \/ includes(linkNameLower, MarketingWord)

Skipped(code, link, reason, calculated) ==
  [link |-> code, name |-> link.name, reason |-> reason,
   total |-> link.total, calculated |-> calculated]

Errored(code, link, error) ==
  [link |-> code, name |-> link.name, error |-> error]

Processed(code, link, leaderEmail, billable) ==
  [link |-> code, name |-> link.name, leaderEmail |-> leaderEmail,
   assessmentType |-> IF link.details.isInterview THEN "Interview" ELSE "Full",
   total |-> link.total,
   allocation |-> IF link.details.createdInBillingMonth
                    THEN link.details.optionValue ELSE 0,
   billable |-> billable,
   createdInBillingMonth |-> link.details.createdInBillingMonth]

processLinkWithoutChecks(r, code, link) ==
  [r EXCEPT !.processed =
     Append(@, Processed(code, link, parseLeaderEmail(link.details.cc_to),
                         calculateBillable(link.total,
                                           link.details.optionValue,
                                           link.details.createdInBillingMonth,
                                           link.details.isInterview)))]

processLinkDroppingFailures(r, code, link) ==
  IF isExcludedName(link.name) \/ ~link.reachable
       \/ parseLeaderEmail(link.details.cc_to) = <<>>
    THEN r
    ELSE [r EXCEPT !.processed =
            Append(@, Processed(code, link,
                                parseLeaderEmail(link.details.cc_to),
                                link.total))]

\* one iteration of for (const link of linksWithActivity)
processLink(r, code, link) ==
  IF isExcludedName(link.name)
    THEN [r EXCEPT !.skipped =
            Append(@, Skipped(code, link, "Test/Marketing link", 0))]
  ELSE IF ~link.reachable
    THEN [r EXCEPT !.errors = Append(@, Errored(code, link, "getLinkDetails"))]
  ELSE IF link.details.limit = "none"
    THEN [r EXCEPT !.skipped =
            Append(@, Skipped(code, link, "No limit settings found", 0))]
  ELSE IF link.details.limit = "H"
    THEN [r EXCEPT !.skipped =
            Append(@, Skipped(code, link, "Hard limit (H)", 0))]
  ELSE LET billable == calculateBillable(link.total, link.details.optionValue,
                                         link.details.createdInBillingMonth,
                                         link.details.isInterview)
           leaderEmail == parseLeaderEmail(link.details.cc_to)
       IN IF billable <= 0
            THEN [r EXCEPT !.skipped =
                    Append(@, Skipped(code, link, "No billable assessments",
                                      billable))]
          ELSE IF leaderEmail = <<>>
            THEN [r EXCEPT !.errors =
                    Append(@, Errored(code, link, "leader email"))]
          ELSE [r EXCEPT !.processed =
                  Append(@, Processed(code, link, leaderEmail, billable))]

AddToGroupKeepingLast(g, link) ==
  [g EXCEPT
     !.interviewAssessments =
        IF link.assessmentType = "Interview" THEN link.billable ELSE @,
     !.fullAssessments =
        IF link.assessmentType = "Interview" THEN @ ELSE link.billable,
     !.linkNames = Append(@, link.name)]

AddToGroup(g, link) ==
  [g EXCEPT
     !.interviewAssessments =
        IF link.assessmentType = "Interview" THEN @ + link.billable ELSE @,
     !.fullAssessments =
        IF link.assessmentType = "Interview" THEN @ ELSE @ + link.billable,
     !.linkNames = Append(@, link.name)]

\* groupByLeader: the groups in insertion order (Object.entries)
RECURSIVE groupByLeader(_)
groupByLeader(processedLinks) ==
  IF processedLinks = <<>> THEN <<>>
  ELSE LET n == Len(processedLinks)
           grouped == groupByLeader(SubSeq(processedLinks, 1, n - 1))
           link == processedLinks[n]
           email == toLowerCase(link.leaderEmail)
           at == {i \in DOMAIN grouped : grouped[i].email = email}
       IN IF at = {}
            THEN Append(grouped,
                        AddToGroup([email |-> email, fullAssessments |-> 0,
                                    interviewAssessments |-> 0,
                                    linkNames |-> <<>>], link))
            ELSE [i \in DOMAIN grouped |->
                    IF i \in at THEN AddToGroup(grouped[i], link)
                    ELSE grouped[i]]

\* const lineItems = []  (one line per assessment type with usage)
UsageLines(g) ==
  (IF g.fullAssessments > 0
     THEN <<Line("FULL", g.fullAssessments, 0)>> ELSE <<>>) \o
  (IF g.interviewAssessments > 0
     THEN <<Line("INTERVIEW", g.interviewAssessments, 0)>> ELSE <<>>)

\* the activity report and the link details the IDS API answers with
Links ==
  LET names == { <<"A", "c", "m", "e">>,
                 <<"T", "e", "s", "t", " ", "R", "u", "n">>,
                 <<"M", "A", "R", "K", "E", "T", "I", "N", "G">> }
      ccTo == { <<>>,
                <<"A", "d", "m", "i", "n", "@", "b", "a", "s", "l",
                "e", "r", "a", "c", "a", "d", "e", "m", "y", ".", "c",
                "o", "m", ",", " ", "L", "@", "x">>,
                <<"l", "@", "x">>,
                <<"m", "@", "x">> }
      details == [isInterview : BOOLEAN, limit : {"S", "H", "none"},
                  optionValue : 0..MaxAllocation,
                  createdInBillingMonth : BOOLEAN, cc_to : ccTo]
      noDetails == [isInterview |-> FALSE, limit |-> "none", optionValue |-> 0,
                    createdInBillingMonth |-> FALSE, cc_to |-> <<>>]
  IN [name : names, total : 1..MaxTotal, reachable : {TRUE},
      details : details]
     \cup [name : names, total : 1..MaxTotal, reachable : {FALSE},
           details : {noDetails}]

\* reports of no, one or two links; one of two is billed to l@x
ActivityReports ==
  LET earlier ==
        { [name |-> <<"A", "c", "m", "e">>, total |-> 1, reachable |-> TRUE,
           details |-> [isInterview |-> i, limit |-> "S", optionValue |-> 0,
                        createdInBillingMonth |-> FALSE,
                        cc_to |-> <<"l", "@", "x">>]] : i \in BOOLEAN }
  IN {<<>>} \cup {<<l>> : l \in Links}
            \cup {<<e, l>> : e \in earlier, l \in Links}
            \cup {<<l, e>> : e \in earlier, l \in Links}

NoResults ==
  [processed |-> <<>>, skipped |-> <<>>, errors |-> <<>>, grouped |-> <<>>,
   invoices |-> <<>>]

InitUsage ==
  /\ usage \in [modeParam : {"", "dry-run", "live", "weekly"}, links : ActivityReports, next : {1},
                leader : {1}]
  /\ results = NoResults
  /\ pc = "idle"
  /\ ledger = <<>>
  /\ calls = <<>>
  /\ result = NoResult
  /\ eventDate \in EventDates
  /\ today = eventDate
  /\ settings = AllConfigured
  /\ version = "ids"
  /\ stripeEnv = Unused
  /\ booking = NoBooking
  /\ prices = [bst |-> 0, add |-> 0]
  /\ stripePayment = WithChargeSearch(NotFound, FALSE)
  /\ flow = "none"
  /\ payload = Unused
  /\ order = Unused
  /\ product = Unused
  /\ mapping = Unused

modeDefaultsToLive(u) == IF u.modeParam = "" THEN "live" ELSE u.modeParam

\* const mode = req.query.mode || 'dry-run'
ModeOf(u) == IF u.modeParam = "" THEN "dry-run" ELSE u.modeParam

UsageResponse(status, message) ==
  [NoResult EXCEPT !.status = status, !.type = message]

UsageOthers ==
  <<environment, payload, order, product, mapping, version, stripeEnv,
    booking, prices, stripePayment, flow>>

\* if (!['dry-run', 'live'].includes(mode)) return 400
RejectMode ==
  /\ pc = "idle"
  /\ ModeOf(usage) \notin {"dry-run", "live"}
  /\ pc' = "done"
  /\ result' = UsageResponse("400", "Invalid mode")
  /\ UNCHANGED <<UsageOthers, usage, results, ledger, calls>>

\* const activityReport = await getAccountActivityReport(...)
FetchActivityReport ==
  /\ pc = "idle"
  /\ ModeOf(usage) \in {"dry-run", "live"}
  /\ \E ok \in BOOLEAN :
       /\ calls' = Append(calls, Call("getAccountActivityReport", ok))
       /\ IF ~ok
            THEN pc' = "done" /\ result' = UsageResponse("500", "failed")
          ELSE IF usage.links = <<>>
            THEN pc' = "done" /\ result' = UsageResponse("200", "No activity found")
          ELSE pc' = "usage_links" /\ UNCHANGED result
  /\ UNCHANGED <<UsageOthers, usage, results, ledger>>

\* for (const link of linksWithActivity) { ... }
ProcessLink ==
  /\ pc = "usage_links"
  /\ usage.next <= Len(usage.links)
  /\ results' = processLink(results, usage.next, usage.links[usage.next])
  /\ calls' = IF isExcludedName(usage.links[usage.next].name) THEN calls
              ELSE Append(calls, Call("getLinkDetails",
                                      usage.links[usage.next].reachable))
  /\ usage' = [usage EXCEPT !.next = @ + 1]
  /\ UNCHANGED <<UsageOthers, pc, ledger, result>>

\* const leaderInvoices = groupByLeader(results.processed)
GroupLeaders ==
  /\ pc = "usage_links"
  /\ usage.next > Len(usage.links)
  /\ results' = [results EXCEPT !.grouped = groupByLeader(results.processed)]
  /\ pc' = IF ModeOf(usage) = "live" /\ results.processed # <<>>
             THEN "usage_client" ELSE "usage_report"
  /\ UNCHANGED <<UsageOthers, usage, ledger, calls, result>>

\* const qb = await getQBClient()  (a rejection lands in the outer catch)
UsageGetQBClient ==
  /\ pc = "usage_client"
  /\ \E ok \in BOOLEAN :
       /\ calls' = Append(calls, Call("getQBClient", ok))
       /\ IF ok
            THEN pc' = "usage_invoice" /\ UNCHANGED result
            ELSE pc' = "done" /\ result' = UsageResponse("500", "failed")
  /\ UNCHANGED <<UsageOthers, usage, results, ledger>>

\* for (const [email, data] of Object.entries(leaderInvoices)) try { ... }
InvoiceLeader ==
  /\ pc = "usage_invoice"
  /\ usage.leader <= Len(results.grouped)
  /\ LET g == results.grouped[usage.leader]
     IN \E customerOk \in BOOLEAN, invoiceOk \in BOOLEAN :
          /\ calls' = calls \o <<Call("findOrCreateCustomer", customerOk)>> \o
                      (IF customerOk THEN <<Call("createInvoice", invoiceOk)>>
                                     ELSE <<>>)
          /\ ledger' = IF customerOk /\ invoiceOk
                         THEN Append(ledger, Doc("Invoice", UsageLines(g), 0, 0,
                                                 DueDateOf("Invoice", today)))
                         ELSE ledger
          /\ results' = [results EXCEPT !.invoices =
                           Append(@, [email |-> g.email,
                                      status |-> IF customerOk /\ invoiceOk
                                                   THEN "created" ELSE "failed"])]
  /\ usage' = [usage EXCEPT !.leader = @ + 1]
  /\ UNCHANGED <<UsageOthers, pc, result>>

InvoicesDone ==
  /\ pc = "usage_invoice"
  /\ usage.leader > Len(results.grouped)
  /\ pc' = "usage_report"
  /\ UNCHANGED <<UsageOthers, usage, results, ledger, calls, result>>

\* emailResult = await sendBillingReport(response)  (a failure is recorded in
\* the response); return res.status(200).json(response)
SendReport ==
  /\ pc = "usage_report"
  /\ \E ok \in BOOLEAN :
       calls' = Append(calls, Call("sendBillingReport", ok))
  /\ pc' = "done"
  /\ result' = UsageResponse("200", ModeOf(usage))
  /\ UNCHANGED <<UsageOthers, usage, results, ledger>>

NextUsage ==
  \/ RejectMode
  \/ FetchActivityReport
  \/ ProcessLink
  \/ GroupLeaders
  \/ UsageGetQBClient
  \/ InvoiceLeader
  \/ InvoicesDone
  \/ SendReport

SpecUsage == InitUsage /\ [][NextUsage]_vars



(***************************************************************************)
(* lib/quickbooks.js : findOrCreateCustomer                                *)
(*                                                                         *)
(* payload is the customerData argument, ledger the customers QuickBooks   *)
(* holds, calls the QuickBooks calls issued: [op, ok, code, name].         *)
(* QuickBooks refuses a second customer with an existing DisplayName with  *)
(* error code 6240; any call can also fail for another reason.             *)
(***************************************************************************)
retryOnAnyError(code) == code # "ok"

\* if (err.Fault?.Error?.[0]?.code === '6240')
isDuplicateName(code) == code = "6240"

\* the booking handler passes {displayName, email}: firstName and lastName
\* are undefined there and the template literal prints them as 'undefined'
InitCustomer ==
  /\ payload \in {[firstName |-> f, lastName |-> l, email |-> e] :
                    f \in {<<"J">>, <<"undefined">>},
                    l \in {<<"D">>, <<"undefined">>},
                    e \in {<<"a">>, <<"b">>}}
  /\ ledger \in
       LET Customer(name, email) ==
             [kind |-> "Customer", DisplayName |-> name, email |-> email]
           jd == <<"J", " ", "D">>
           un == <<"undefined", " ", "undefined">>
       IN { <<>>,
            <<Customer(jd, <<"a">>)>>,
            <<Customer(jd, <<"c">>)>>,
            <<Customer(un, <<"c">>)>>,
            <<Customer(jd, <<"c">>),
              Customer(jd \o <<" ", "(", "a", ")">>, <<"d">>)>> }
  /\ pc = "find"
  /\ calls = <<>>
  /\ result = NoResult
  /\ version = "v2.1.0"
  /\ stripeEnv = Unused
  /\ booking = NoBooking
  /\ prices = [bst |-> 0, add |-> 0]
  /\ stripePayment = WithChargeSearch(NotFound, FALSE)
  /\ flow = "none"
  /\ settings = AllConfigured
  /\ eventDate \in EventDates
  /\ today = eventDate
  /\ order = Unused
  /\ product = Unused
  /\ mapping = Unused
  /\ usage = Unused
  /\ results = Unused

\* qb.findCustomers({PrimaryEmailAddr: email}): a failed query resolves null
\* like an empty answer, and the function goes on to create the customer
FindCustomers ==
  /\ pc = "find"
  /\ \E ok \in BOOLEAN :
       LET hits == SelectSeq(ledger, LAMBDA c : c.email = payload.email)
       IN /\ calls' = Append(calls, [op |-> "findCustomers", ok |-> ok,
                                     code |-> IF ok THEN "ok" ELSE "other",
                                     name |-> <<>>])
          /\ IF ok /\ hits # <<>>
               THEN /\ pc' = "done"
                    /\ result' = [NoResult EXCEPT !.status = "success",
                                                  !.type = hits[1].DisplayName]
               ELSE /\ pc' = "create"
                    /\ UNCHANGED result
  /\ UNCHANGED <<environment, otherWebhooks, version, stripeEnv, booking,
                 prices, stripePayment, flow, ledger>>

\* qb.createCustomer(newCustomer), and once more with the email appended to
\* the DisplayName after a duplicate-name error; a rejection is the handler's
\* error response
CreateCustomer ==
  /\ pc \in {"create", "retry"}
  /\ LET displayName == payload.firstName \o <<" ">> \o payload.lastName
         name == IF pc = "create" THEN displayName
                 ELSE displayName \o <<" ", "(">> \o payload.email \o <<")">>
         taken == \E i \in DOMAIN ledger : ledger[i].DisplayName = name
     IN \E code \in {IF taken THEN "6240" ELSE "ok", "other"} :
          /\ calls' = Append(calls, [op |-> "createCustomer",
                                     ok |-> code = "ok", code |-> code,
                                     name |-> name])
          /\ IF code = "ok"
               THEN /\ ledger' = Append(ledger, [kind |-> "Customer",
                                                 DisplayName |-> name,
                                                 email |-> payload.email])
                    /\ pc' = "done"
                    /\ result' = [NoResult EXCEPT !.status = "success",
                                                  !.type = name]
             ELSE IF pc = "create" /\ isDuplicateName(code)
               THEN /\ pc' = "retry"
                    /\ UNCHANGED <<ledger, result>>
             ELSE /\ pc' = "done"
                  /\ result' = [NoResult EXCEPT !.status = "error"]
                  /\ UNCHANGED ledger
  /\ UNCHANGED <<environment, otherWebhooks, version, stripeEnv, booking,
                 prices, stripePayment, flow>>

NextCustomer ==
  \/ FindCustomers
  \/ CreateCustomer

SpecCustomer == InitCustomer /\ [][NextCustomer]_vars


(***************************************************************************)
(* failed-webhook log and its retry endpoint                               *)
(*   lib/failed-webhooks (v1.0.0), api/failed-webhooks (POST),             *)
(*   api/ycbm-qb v1.2.0 (catch block)                                      *)
(*                                                                         *)
(* results is the KV store: [store: the failed_webhook:<id> entries in     *)
(* writing order, index: the failed_webhook_ids list, newest first];       *)
(* usage counts the deliveries and retries made so far.  Entries do not    *)
(* expire within a run and DELETE is not modelled.                         *)
(***************************************************************************)
MaxDeliveries == 2
MaxRetries == 2

MAX_STORED_FAILURES == 100

\* kv.set, kv.lpush, kv.ltrim; a KV error at any point is swallowed
logFailedWebhook(log, source, body, kv) ==
  LET id == Len(log.store) + 1
      failedWebhook == [id |-> id, source |-> source, payload |-> body,
                        retried |-> FALSE, retrySuccess |-> FALSE]
  IN IF kv = "unavailable" THEN log
     ELSE IF kv = "index_failed"
       THEN [log EXCEPT !.store = Append(@, failedWebhook)]
     ELSE [store |-> Append(log.store, failedWebhook),
           index |-> Take(<<id>> \o log.index, MAX_STORED_FAILURES)]

logAlways(headers, log, body, kv) == logFailedWebhook(log, "ycbm", body, kv)

\* catch block of the v1.2.0 booking handler; headers as the handler sees
\* them, names in lower case
logOnFailure(headers, log, body, kv) ==
  LET marker == <<"x", "-", "r", "e", "t", "r", "y", "-",
                  "w", "e", "b", "h", "o", "o", "k">>
  IN IF \E h \in DOMAIN headers :
          headers[h].name = marker /\ headers[h].value # <<>>
       THEN log
       ELSE logFailedWebhook(log, "ycbm", body, kv)

InitRetry ==
  /\ results = [store |-> <<>>, index |-> <<>>]
  /\ usage = [deliveries |-> 0, retries |-> 0]
  /\ pc = "idle"
  /\ calls = <<>>
  /\ ledger = <<>>
  /\ result = NoResult
  /\ version = "v1.2.0"
  /\ stripeEnv = Unused
  /\ booking = NoBooking
  /\ prices = [bst |-> 0, add |-> 0]
  /\ stripePayment = WithChargeSearch(NotFound, FALSE)
  /\ flow = "none"
  /\ settings = AllConfigured
  /\ eventDate \in EventDates
  /\ today = eventDate
  /\ payload = Unused
  /\ order = Unused
  /\ product = Unused
  /\ mapping = Unused

\* a booking webhook as YouCanBookMe delivers it: it is processed or the
\* handler's try block throws
DeliverBooking ==
  /\ usage.deliveries < MaxDeliveries
  /\ \E bookingRef \in {"A", "B"}, failed \in BOOLEAN,
        kv \in {"ok", "index_failed", "unavailable"} :
       /\ results' = IF failed
                       THEN logOnFailure(<<>>, results,
                                         [bookingRef |-> bookingRef], kv)
                       ELSE results
       /\ result' = [NoResult EXCEPT
                       !.status = IF failed THEN "error" ELSE "success"]
  /\ usage' = [usage EXCEPT !.deliveries = @ + 1]
  /\ UNCHANGED <<environment, payload, order, product, mapping, version,
                 stripeEnv, pc, booking, prices, stripePayment, flow, ledger,
                 calls>>

\* POST /api/failed-webhooks?id=...: getFailedWebhook, replay with the
\* X-Retry-Webhook header (the receiving server lower-cases header names),
\* markRetried
RetryWebhook ==
  /\ usage.retries < MaxRetries
  /\ \E id \in 1..(MaxDeliveries + 1), readable \in BOOLEAN,
        failed \in BOOLEAN, kv \in {"ok", "index_failed", "unavailable"},
        marked \in BOOLEAN :
       LET found == {k \in DOMAIN results.store :
                       readable /\ results.store[k].id = id}
           webhook == results.store[CHOOSE k \in found : TRUE]
           sent == <<[name |-> <<"X", "-", "R", "e", "t", "r", "y", "-",
                                 "W", "e", "b", "h", "o", "o", "k">>,
                      value |-> <<id>>]>>
           received == [h \in DOMAIN sent |->
                          [name |-> toLowerCase(sent[h].name),
                           value |-> sent[h].value]]
           replayed == IF failed /\ webhook.source # "woocommerce"
                         THEN logOnFailure(received, results,
                                           webhook.payload, kv)
                         ELSE results
           markRetried(log) ==
             [log EXCEPT !.store =
                [k \in DOMAIN @ |->
                   IF marked /\ @[k].id = id
                     THEN [@[k] EXCEPT !.retried = TRUE,
                                       !.retrySuccess = ~failed]
                     ELSE @[k]]]
       IN IF found = {}
            THEN /\ result' = [NoResult EXCEPT !.status = "404"]
                 /\ UNCHANGED results
            ELSE /\ results' = markRetried(replayed)
                 /\ result' = [NoResult EXCEPT
                                 !.status = IF failed THEN "retry failed"
                                            ELSE "retried"]
  /\ usage' = [usage EXCEPT !.retries = @ + 1]
  /\ UNCHANGED <<environment, payload, order, product, mapping, version,
                 stripeEnv, pc, booking, prices, stripePayment, flow, ledger,
                 calls>>

NextRetry ==
  \/ DeliverBooking
  \/ RetryWebhook

SpecRetry == InitRetry /\ [][NextRetry]_vars

(***************************************************************************)
(* Properties                                                              *)
(***************************************************************************)
Flows == {"PAYLATER", "SIMPLE_PAID", "PAID_WITH_DISCOUNT", "PARTIAL_PAYMENT"}

BeforeFlow == {"idle", "client", "prices", "customer", "stripe"}

DocsOfKind(kind) == {i \in DOMAIN ledger : ledger[i].kind = kind}

CallsOf(op) == {i \in DOMAIN calls : calls[i].op = op}

PartialSucceeded ==
  flow = "PARTIAL_PAYMENT" /\ pc = "done" /\ result.status = "success"

\* C1 -- The flow is a function of three facts only: whether a payment was
\* found, whether additionalTeamMembers > 0 and whether discountAmount > 0.
\* Not found gives PAYLATER; found with extras gives PARTIAL_PAYMENT whatever
\* the discount; found without extras gives PAID_WITH_DISCOUNT when the
\* discount is positive and SIMPLE_PAID otherwise.  Every handler that got
\* past the lookup has selected exactly one of the four flows.
C1_FlowSelection ==
  LET found == stripePayment.found
      extras == booking.additionalTeamMembers > 0
      discount == stripePayment.discountAmount > 0
  IN /\ (pc \notin BeforeFlow \cup {"done"}) => flow \in Flows
     /\ (pc = "done" /\ result.status = "success") => flow \in Flows
     /\ flow # "none" =>
          /\ flow \in Flows
          /\ (flow = "PAYLATER") <=> ~found
          /\ (flow = "PARTIAL_PAYMENT") <=> (found /\ extras)
          /\ (flow = "PAID_WITH_DISCOUNT") <=> (found /\ ~extras /\ discount)
          /\ (flow = "SIMPLE_PAID") <=> (found /\ ~extras /\ ~discount)

\* a discounted payment with extras: the case where the order of the tests
\* decides
C1_Witness ==
  /\ flow = "PARTIAL_PAYMENT"
  /\ stripePayment.discountAmount > 0
  /\ booking.additionalTeamMembers > 0

\* C2 -- A PARTIAL_PAYMENT handler that answers success has created exactly
\* one Invoice, carrying the base line at the pre-discount price and the
\* extras line, then exactly one Payment of the Stripe amount linked to that
\* Invoice, and no SalesReceipt.
C2_PartialOneInvoiceOnePayment ==
  PartialSucceeded =>
    /\ Cardinality(DocsOfKind("Invoice")) = 1
    /\ Cardinality(DocsOfKind("Payment")) = 1
    /\ DocsOfKind("SalesReceipt") = {}
    /\ \A i \in DocsOfKind("Invoice"), p \in DocsOfKind("Payment") :
         /\ i < p
         /\ ledger[p].linkedInvoice = i
         /\ ledger[p].amount = centsToDollars(stripePayment.amountPaid)
         /\ \E k \in DOMAIN ledger[i].lines :
              /\ ledger[i].lines[k].item = "BST"
              /\ ledger[i].lines[k].amount = centsToDollars(stripePayment.subtotal)
         /\ \E k \in DOMAIN ledger[i].lines :
              /\ ledger[i].lines[k].item = "ADD"
              /\ ledger[i].lines[k].qty = booking.additionalTeamMembers

\* C3 -- A createPayment call is issued only after a createInvoice call that
\* succeeded, and the Payment names that Invoice; when createInvoice fails no
\* Payment is created and the handler answers with an error.
C3_PaymentOnlyAfterInvoice ==
  /\ \A p \in CallsOf("createPayment") :
       \E i \in CallsOf("createInvoice") : i < p /\ calls[i].ok
  /\ \A p \in DocsOfKind("Payment") :
       /\ ledger[p].linkedInvoice \in DocsOfKind("Invoice")
       /\ ledger[p].linkedInvoice < p
  /\ (\E i \in CallsOf("createInvoice") : ~calls[i].ok) =>
       /\ CallsOf("createPayment") = {}
       /\ DocsOfKind("Payment") = {}
       /\ pc = "done"
       /\ result.status = "error"

\* the Payment call has been issued in the PARTIAL_PAYMENT flow
C3_Witness ==
  /\ flow = "PARTIAL_PAYMENT"
  /\ CallsOf("createPayment") # {}
  /\ DocsOfKind("Payment") # {}

\* C4 -- In SIMPLE_PAID and PAID_WITH_DISCOUNT the lines of the SalesReceipt
\* add up exactly to the amount Stripe collected (amountPaid).
C4_ReceiptTotalsAmountPaid ==
  flow \in {"SIMPLE_PAID", "PAID_WITH_DISCOUNT"} =>
    \A r \in DocsOfKind("SalesReceipt") :
      TotalAmt(ledger[r].lines) = centsToDollars(stripePayment.amountPaid)

\* C5 -- The balanceDue a successful PARTIAL_PAYMENT handler reports is the
\* Invoice total minus the Payment applied to that Invoice, and it is never
\* negative.
C5_BalanceDue ==
  PartialSucceeded =>
    LET applied == SumSeq([p \in DOMAIN ledger |->
                     IF ledger[p].kind = "Payment"
                        /\ ledger[p].linkedInvoice = LastInvoiceId(ledger)
                       THEN ledger[p].amount ELSE 0])
    IN /\ result.balanceDue = InvoiceTotal(ledger) - applied
       /\ result.balanceDue >= 0

C7_LookupNeverThrows ==
  /\ ~stripePayment.threw
  /\ (flow # "none" /\ (~stripeEnv.configured \/ ~stripeEnv.reachable)) =>
       /\ ~stripePayment.found
       /\ flow = "PAYLATER"

\* two emails that differ at most in the case of their letters
SameIgnoringCase(a, b) ==
  /\ a # <<>>
  /\ Len(a) = Len(b)
  /\ \A k \in DOMAIN a :
       a[k] = b[k] \/ {a[k], b[k]} \in {{"a", "A"}, {"b", "B"}}

\* the lookup answered with the first email match among the first sLimit
\* sessions of the window, else the first among the first cLimit charges,
\* else found = false; charges are searched only when no session matched
FirstMatchWithin(sLimit, cLimit) ==
  LET sess == stripeEnv.sessions
      chs == stripeEnv.charges
      SHit(i) == SameIgnoringCase(sessionEmail(sess[i]), booking.email)
      CHit(i) == SameIgnoringCase(chargeEmail(chs[i]), booking.email)
      sHits == {i \in DOMAIN sess : i <= sLimit /\ SHit(i)}
      cHits == {i \in DOMAIN chs : i <= cLimit /\ CHit(i)}
  IN /\ sHits # {} =>
          /\ stripePayment.found
          /\ stripePayment.kind = "session"
          /\ ~stripePayment.searchedCharges
          /\ \E i \in sHits :
               /\ \A j \in sHits : i <= j
               /\ stripePayment.amountPaid = sess[i].amount_total
     /\ (sHits = {} /\ cHits # {}) =>
          /\ stripePayment.found
          /\ stripePayment.kind = "charge"
          /\ stripePayment.searchedCharges
          /\ \E i \in cHits :
               /\ \A j \in cHits : i <= j
               /\ stripePayment.amountPaid = chs[i].amount
     /\ (sHits = {} /\ cHits = {}) =>
          /\ ~stripePayment.found
          /\ stripePayment.searchedCharges

\* C8 (as stated) -- The lookup answers with the first checkout session of
\* the lookback window whose email equals the booking email ignoring case;
\* charges are searched only when no session of the window matches; with no
\* match anywhere it answers found = false.  Amounts play no part.
C8_FirstInWindow ==
  pc = "done" =>
    FirstMatchWithin(Len(stripeEnv.sessions), Len(stripeEnv.charges))

\* C8 -- The lookup answers with the first email match, ignoring case, among
\* the at most 10 sessions the list call returns for the lookback window;
\* charges are searched only when none of those sessions matches, and then
\* the first match among the at most 20 listed charges is the answer; with
\* no match among the listed records it answers found = false.  Amounts
\* play no part.
C8_FirstInListedPage ==
  pc = "done" => FirstMatchWithin(SessionListLimit, ChargeListLimit)

\* a session of the window matches in all but case, lies beyond the listed
\* page, and the lookup went on to the charges
C8_Witness ==
  /\ pc = "done"
  /\ \E i \in DOMAIN stripeEnv.sessions :
       /\ i > SessionListLimit
       /\ SameIgnoringCase(sessionEmail(stripeEnv.sessions[i]), booking.email)
       /\ sessionEmail(stripeEnv.sessions[i]) # booking.email
  /\ stripePayment.searchedCharges
  /\ stripePayment.kind = "charge"

\* C9 -- When the send of a created Invoice fails the handler still answers
\* success with invoiceSent = false, the Invoice stays in the ledger and
\* every document created before the send is still there.
C9_SendFailureNotFatal ==
  (calls # <<>> /\ calls[Len(calls)] = Call("sendInvoicePdf", FALSE)) =>
    /\ pc = "done"
    /\ result.status = "success"
    /\ ~result.invoiceSent
    /\ LastInvoiceId(ledger) # 0
    /\ Len(ledger) = Cardinality({i \in DOMAIN calls :
                                    calls[i].op # "sendInvoicePdf" /\ calls[i].ok})

\* a send that failed after the Invoice was created
C9_Witness ==
  /\ calls # <<>>
  /\ calls[Len(calls)] = Call("sendInvoicePdf", FALSE)
  /\ DocsOfKind("Invoice") # {}

\* C10 -- A successful PARTIAL_PAYMENT handler has attempted exactly one
\* send, after the Payment, when its balanceDue is positive, and no send
\* when the balance is zero.
C10_SendIffBalanceDue ==
  PartialSucceeded =>
    IF result.balanceDue > 0
      THEN /\ Cardinality(CallsOf("sendInvoicePdf")) = 1
           /\ \A s \in CallsOf("sendInvoicePdf") :
                \E p \in CallsOf("createPayment") : p < s /\ calls[p].ok
      ELSE CallsOf("sendInvoicePdf") = {}
\* C11 -- Every SalesReceipt of a PAID_WITH_DISCOUNT booking carries the
\* negative discount line; with no discount item reference configured no
\* receipt is created (neither without the line nor with the line under the
\* unconfigured reference) and the run answers with an error.
C11_DiscountLineNeverDropped ==
  flow = "PAID_WITH_DISCOUNT" =>
    /\ \A r \in DocsOfKind("SalesReceipt") :
         /\ \E k \in DOMAIN ledger[r].lines :
              /\ ledger[r].lines[k].item = "DISCOUNT"
              /\ ledger[r].lines[k].amount
                   = -centsToDollars(stripePayment.discountAmount)
              /\ ledger[r].lines[k].amount < 0
         /\ settings.QB_ITEM_DISCOUNT
    /\ (~settings.QB_ITEM_DISCOUNT /\ pc = "done") => result.status = "error"

\* C12 -- Every NET-30 Invoice of a PAYLATER booking is due 30 days after
\* the booking date, whatever the day on which the webhook is processed.
C12_DueDateFromEventDate ==
  flow = "PAYLATER" =>
    \A i \in DocsOfKind("Invoice") : ledger[i].dueDate = eventDate + NetDays

\* C17: mapProductToQuickBooks returns the catalog entry whose SKU equals the
\* given SKU (compared without case and surrounding blanks) whenever one
\* exists, even if the name contains a keyword of another entry; when no SKU
\* matches, the first entry in declaration order with a keyword contained in
\* the lower-cased name; when neither matches, matched = FALSE with zero
\* standard price and the raw product name as label.
SkuEntries ==
  {i \in DOMAIN PRODUCT_MAP(settings) :
     /\ trim(product.sku) # <<>>
     /\ toLowerCase(trim(product.sku)) = toLowerCase(PRODUCT_MAP(settings)[i].sku)}

KeywordEntries ==
  {i \in DOMAIN PRODUCT_MAP(settings) :
     \E k \in DOMAIN PRODUCT_MAP(settings)[i].keywords :
       \E at \in 1..Len(product.name) :
         /\ at + Len(PRODUCT_MAP(settings)[i].keywords[k]) - 1 <= Len(product.name)
         /\ \A c \in 1..Len(PRODUCT_MAP(settings)[i].keywords[k]) :
              LowerChar(product.name[at + c - 1]) =
                PRODUCT_MAP(settings)[i].keywords[k][c]}

IsEntry(m, i) ==
  /\ m.matched
  /\ m.matchedKey = PRODUCT_MAP(settings)[i].key
  /\ m.qbItemId = PRODUCT_MAP(settings)[i].qbItemId
  /\ m.qbItemName = PRODUCT_MAP(settings)[i].qbItemName
  /\ m.defaultPrice = PRODUCT_MAP(settings)[i].defaultPrice

OrderParsed == order # Unused /\ order # NoOrder

RecognizedCode(code) == toLowerCase(code) \in PaylaterCodes

ItemsSubtotal ==
  SumSeq([k \in DOMAIN payload.line_items |->
            payload.line_items[k].subtotal])

CoversNinetyNine(coupon) == coupon.discount * 100 >= ItemsSubtotal * 99

OrderSucceeded ==
  pc = "done" /\ OrderParsed /\ result.success /\ ~result.skipped

C14_OneDocumentPerOrder ==
  /\ OrderParsed =>
       /\ Len(ledger) <= 1
       /\ \A i \in DOMAIN ledger :
            ledger[i].kind = IF order.isPaylater THEN "Invoice"
                                                 ELSE "SalesReceipt"
  /\ OrderSucceeded =>
       /\ Len(ledger) = 1
       /\ IF order.isPaylater
            THEN /\ ledger[1].dueDate = today + NetDays
                 /\ Cardinality(CallsOf("sendInvoicePdf")) = 1
                 /\ \A s \in CallsOf("sendInvoicePdf") :
                      \E c \in CallsOf("createInvoice") : c < s /\ calls[c].ok
                 /\ CallsOf("createSalesReceipt") = {}
            ELSE /\ CallsOf("sendInvoicePdf") = {}
                 /\ CallsOf("createInvoice") = {}
                 /\ Cardinality(CallsOf("createSalesReceipt")) = 1

C14_Witness ==
  /\ OrderSucceeded
  /\ order.isPaylater
  /\ Len(ledger) = 1
  /\ \E s \in CallsOf("sendInvoicePdf") : ~calls[s].ok

\* C15: for every line item of a paylater order, the normalized unit price is
\* the catalog's standard price and the line total is that price times the
\* quantity; the order's own price is never used for a paylater line, and the
\* order total equals the sum of these line totals.
CatalogEntry(i) ==
  mapProductToQuickBooks(payload.line_items[i].name, payload.line_items[i].sku,
                         settings)

AtCatalogPrice(i) ==
  /\ order.lineItems[i].unitPrice = CatalogEntry(i).defaultPrice
  /\ order.lineItems[i].total =
       CatalogEntry(i).defaultPrice * order.lineItems[i].quantity

OrderTotalIsLineSum ==
  order.total = SumSeq([k \in DOMAIN order.lineItems |-> order.lineItems[k].total])

C15_PaylaterLinesAtCatalogPrice ==
  (OrderParsed /\ order.isPaylater) =>
    /\ \A i \in DOMAIN order.lineItems : AtCatalogPrice(i)
    /\ OrderTotalIsLineSum

\* C15 (amended): for every line item of a paylater order that has a catalog
\* match, the unit price is the catalog's standard price and the line total
\* is that price times the quantity, whatever the order's own price; a line
\* without a catalog match keeps the order's own line amount; the order total
\* equals the sum of the line totals.
C15_MatchedPaylaterLinesAtCatalogPrice ==
  (OrderParsed /\ order.isPaylater) =>
    /\ \A i \in DOMAIN order.lineItems :
         IF CatalogEntry(i).matched
           THEN AtCatalogPrice(i)
           ELSE order.lineItems[i].total \in
                  {payload.line_items[i].subtotal, payload.line_items[i].total}
    /\ OrderTotalIsLineSum

C15_Witness ==
  /\ OrderParsed
  /\ order.isPaylater
  /\ \E i \in DOMAIN order.lineItems :
       /\ CatalogEntry(i).matched
       /\ order.lineItems[i].total # payload.line_items[i].subtotal
       /\ order.lineItems[i].total # payload.line_items[i].total

\* C16: for a paid order that carries a discount, the created SalesReceipt has
\* its product lines at pre-discount subtotal prices plus a separate negative
\* discount line, so that the receipt's line total equals the order total
\* actually paid.
C16_DiscountedReceiptTotalsPaid ==
  (OrderSucceeded /\ ~order.isPaylater /\ order.discount.hasDiscount) =>
    \A d \in DocsOfKind("SalesReceipt") :
      /\ \A i \in DOMAIN payload.line_items :
           ledger[d].lines[i].amount = payload.line_items[i].subtotal
      /\ \E i \in DOMAIN ledger[d].lines : ledger[d].lines[i].amount < 0
      /\ TotalAmt(ledger[d].lines) = payload.total

\* C18: an order containing a line item with no catalog match is never turned
\* into a ledger document silently: the unmatched item is surfaced to the
\* operator (a validation error in the result) instead of being invoiced at
\* $0 or booked under another product's item reference.
HasUnmatchedItem ==
  \E i \in DOMAIN payload.line_items : ~CatalogEntry(i).matched

C18_UnmatchedItemSurfaced ==
  (OrderParsed /\ HasUnmatchedItem) =>
    /\ ledger = <<>>
    /\ pc = "done" => ~result.success

\* C19: the billable quantity of a resource is its usage total when it is an
\* Interview resource (allocation ignored), max(0, total - allocation) when it
\* is a Full resource created within the billing period, and the usage total
\* when it is a Full resource created before the period; it is never negative
\* and never exceeds the usage total.
UsageRun == usage # Unused

ExpectedBillable(link) ==
  IF link.details.isInterview THEN link.total
  ELSE IF ~link.details.createdInBillingMonth THEN link.total
  ELSE IF link.total > link.details.optionValue
    THEN link.total - link.details.optionValue
    ELSE 0

C19_BillableQuantity ==
  UsageRun =>
    /\ \A i \in DOMAIN results.processed :
         LET p == results.processed[i]
         IN /\ p.billable = ExpectedBillable(usage.links[p.link])
            /\ p.billable >= 0
            /\ p.billable <= usage.links[p.link].total
    /\ \A i \in DOMAIN results.skipped :
         LET s == results.skipped[i]
         IN s.reason = "No billable assessments" =>
              /\ s.calculated = ExpectedBillable(usage.links[s.link])
              /\ s.calculated >= 0
              /\ s.calculated <= usage.links[s.link].total

C19_Witness ==
  /\ UsageRun
  /\ \E i \in DOMAIN results.processed :
       LET p == results.processed[i]
       IN /\ p.assessmentType = "Full"
          /\ p.createdInBillingMonth
          /\ p.allocation > 0
          /\ p.billable = p.total - p.allocation

\* C20: a resource whose name contains an exclusion keyword (test, marketing;
\* case-insensitive) or whose limit setting is a hard limit never contributes
\* to any owner's billable totals or invoice lines; it is recorded in the
\* skipped list with its reason rather than dropped.
ContainsIgnoringCase(name, word) ==
  \E at \in 1..Len(name) :
    /\ at + Len(word) - 1 <= Len(name)
    /\ \A c \in 1..Len(word) : LowerChar(name[at + c - 1]) = word[c]

HasExclusionKeyword(link) ==
  \/ ContainsIgnoringCase(link.name, TestWord)
  \/ ContainsIgnoringCase(link.name, MarketingWord)

HasHardLimit(link) == link.reachable /\ link.details.limit = "H"

Excluded(link) == HasExclusionKeyword(link) \/ HasHardLimit(link)

EntriesOf(list, code) == {i \in DOMAIN list : list[i].link = code}

BilledTo(email, type) ==
  LET billed == SelectSeq(results.processed,
                          LAMBDA p : /\ toLowerCase(p.leaderEmail) = email
                                     /\ p.assessmentType = type
                                     /\ ~Excluded(usage.links[p.link]))
  IN SumSeq([k \in DOMAIN billed |-> billed[k].billable])

C20_ExcludedNeverBilled ==
  UsageRun =>
    /\ \A code \in 1..(usage.next - 1) :
         Excluded(usage.links[code]) =>
           /\ EntriesOf(results.processed, code) = {}
           /\ EntriesOf(results.errors, code) = {}
           /\ Cardinality(EntriesOf(results.skipped, code)) = 1
           /\ \A i \in EntriesOf(results.skipped, code) :
                results.skipped[i].reason =
                  IF HasExclusionKeyword(usage.links[code])
                    THEN "Test/Marketing link" ELSE "Hard limit (H)"
    /\ \A g \in DOMAIN results.grouped :
         /\ results.grouped[g].fullAssessments =
              BilledTo(results.grouped[g].email, "Full")
         /\ results.grouped[g].interviewAssessments =
              BilledTo(results.grouped[g].email, "Interview")
    /\ \A d \in DOMAIN ledger :
         \A l \in DOMAIN ledger[d].lines :
           \E g \in DOMAIN results.grouped :
             ledger[d].lines[l].qty =
               BilledTo(results.grouped[g].email,
                        IF ledger[d].lines[l].item = "FULL" THEN "Full"
                                                            ELSE "Interview")

C20_Witness ==
  /\ UsageRun
  /\ pc = "done"
  /\ ledger # <<>>
  /\ \E code \in DOMAIN usage.links :
       /\ HasHardLimit(usage.links[code])
       /\ ~HasExclusionKeyword(usage.links[code])
       /\ \E g \in DOMAIN results.grouped :
            results.grouped[g].email =
              parseLeaderEmail(usage.links[code].details.cc_to)

\* C21: the per-owner aggregation is exact and order-independent: for every
\* owner email and each type (Full, Interview) the aggregated total equals
\* the sum of billable over that owner's processed resources of that type,
\* whatever the order in which they were processed, and every contributing
\* resource contributes its name exactly once to that owner's name list.
Aggregated ==
  /\ UsageRun
  /\ pc \notin {"idle", "usage_links"}
  /\ usage.next > Len(usage.links)

OwnedBy(email) ==
  SelectSeq(results.processed, LAMBDA p : toLowerCase(p.leaderEmail) = email)

SumOfType(entries, type) ==
  SumSeq([k \in DOMAIN entries |->
            IF entries[k].assessmentType = type THEN entries[k].billable
            ELSE 0])

Reversed(seq) == [k \in DOMAIN seq |-> seq[Len(seq) + 1 - k]]

C21_AggregationExact ==
  Aggregated =>
    /\ \A i \in DOMAIN results.processed :
         Cardinality({g \in DOMAIN results.grouped :
                        results.grouped[g].email =
                          toLowerCase(results.processed[i].leaderEmail)}) = 1
    /\ \A g \in DOMAIN results.grouped :
         LET group == results.grouped[g]
             owned == OwnedBy(group.email)
         IN /\ group.fullAssessments = SumOfType(owned, "Full")
            /\ group.interviewAssessments = SumOfType(owned, "Interview")
            /\ group.linkNames = [k \in DOMAIN owned |-> owned[k].name]
            /\ \E h \in DOMAIN groupByLeader(Reversed(results.processed)) :
                 LET other == groupByLeader(Reversed(results.processed))[h]
                 IN /\ other.email = group.email
                    /\ other.fullAssessments = group.fullAssessments
                    /\ other.interviewAssessments = group.interviewAssessments
                    /\ other.linkNames = Reversed(group.linkNames)

C21_Witness ==
  /\ Aggregated
  /\ \E g \in DOMAIN results.grouped :
       /\ Len(results.grouped[g].linkNames) = 2
       /\ results.grouped[g].fullAssessments > 1

\* C22: in a monthly billing run a failure while processing one resource (the
\* detail fetch fails, the owner email cannot be resolved) or while invoicing
\* one owner is recorded as an error entry for that resource or owner only:
\* every remaining resource and owner is still processed and the run as a
\* whole does not abort.
FailsAlone(link) ==
  /\ ~HasExclusionKeyword(link)
  /\ \/ ~link.reachable
     \/ /\ link.details.limit = "S"
        /\ ExpectedBillable(link) > 0
        /\ parseLeaderEmail(link.details.cc_to) = <<>>

LastCall == calls[Len(calls)]

C22_FailuresStayLocal ==
  UsageRun =>
    /\ \A code \in 1..(usage.next - 1) :
         FailsAlone(usage.links[code]) =>
           /\ Cardinality(EntriesOf(results.errors, code)) = 1
           /\ EntriesOf(results.processed, code) = {}
           /\ EntriesOf(results.skipped, code) = {}
    /\ Aggregated =>
         Len(results.processed) + Len(results.skipped) + Len(results.errors)
           = Len(usage.links)
    /\ Len(results.invoices) = usage.leader - 1
    /\ \A i \in DOMAIN results.invoices :
         results.invoices[i].email = results.grouped[i].email
    /\ Cardinality({i \in DOMAIN results.invoices :
                      results.invoices[i].status = "created"}) = Len(ledger)
    /\ (pc = "usage_report" /\ ModeOf(usage) = "live") =>
         Len(results.invoices) = Len(results.grouped)
    /\ (pc = "done" /\ result.status = "500") =>
         /\ ~LastCall.ok
         /\ LastCall.op \in {"getAccountActivityReport", "getQBClient"}

C22_Witness ==
  /\ UsageRun
  /\ pc = "done"
  /\ result.status = "200"
  /\ Len(usage.links) = 2
  /\ FailsAlone(usage.links[1])
  /\ Len(results.processed) = 1
  /\ \E i \in DOMAIN results.invoices : results.invoices[i].status = "failed"

\* C23: a monthly billing run in dry-run mode, which is the default when no
\* mode is given, never creates a customer or an invoice in the ledger; only
\* mode=live creates them, and any other mode value is rejected with an error
\* before any external call is made.
LedgerCalls ==
  CallsOf("getQBClient") \cup CallsOf("findOrCreateCustomer")
    \cup CallsOf("createInvoice")

C23_OnlyLiveWritesLedger ==
  UsageRun =>
    /\ usage.modeParam # "live" =>
         /\ ledger = <<>>
         /\ LedgerCalls = {}
         /\ results.invoices = <<>>
    /\ usage.modeParam \notin {"", "dry-run", "live"} =>
         /\ calls = <<>>
         /\ pc \in {"idle", "done"}
         /\ pc = "done" => result.status = "400"
    /\ (pc = "done" /\ usage.modeParam \in {"", "dry-run", "live"}) =>
         result.status # "400"

C23_Witness ==
  /\ UsageRun
  /\ usage.modeParam = ""
  /\ pc = "done"
  /\ result.status = "200"
  /\ results.grouped # <<>>

\* C30: in a monthly billing run every resource of the activity report ends
\* in exactly one of the lists processed, skipped or errors, so
\* linksProcessed + linksSkipped + linksErrored always equals
\* linksWithActivity; and every resource in processed has billable > 0 and a
\* resolved owner email.
ListsHolding(code) ==
  Cardinality(EntriesOf(results.processed, code))
    + Cardinality(EntriesOf(results.skipped, code))
    + Cardinality(EntriesOf(results.errors, code))

C30_EveryLinkInOneList ==
  UsageRun =>
    /\ \A code \in DOMAIN usage.links :
         ListsHolding(code) = IF code < usage.next THEN 1 ELSE 0
    /\ Len(results.processed) + Len(results.skipped) + Len(results.errors)
         = usage.next - 1
    /\ (pc = "done" /\ result.status = "200" /\ usage.links # <<>>) =>
         usage.next - 1 = Len(usage.links)
    /\ \A i \in DOMAIN results.processed :
         /\ results.processed[i].billable > 0
         /\ results.processed[i].leaderEmail # <<>>

C30_Witness ==
  /\ UsageRun
  /\ pc = "done"
  /\ result.status = "200"
  /\ Len(usage.links) = 2
  /\ Len(results.processed) = 1
  /\ Len(results.skipped) + Len(results.errors) = 1

\* C24: only a completed order or a non-cancelled booking reaches the billing
\* flow: for an event with any other status (an order that is not completed,
\* a cancelled booking) the handler creates no customer and no ledger
\* document.  Stated for the booking handler: a cancelled booking never gets
\* a flow and never a ledger document.
C24_CancelledBookingNotBilled ==
  booking.bookingStatus = "CANCELLED" =>
    /\ flow = "none"
    /\ ledger = <<>>

\* C25: an event whose required identity fields are missing (order id or
\* billing email for an order; first name, last name or email for a booking)
\* is rejected during normalization with an error, and no customer and no
\* ledger document is created for it.  Stated for the booking handler: a
\* parsed booking without first name, last name or email never gets a flow
\* or a ledger document, and its run ends with an error.
BookingParsed == pc # "idle" /\ result.status # "ignored"

C25_IncompleteBookingRejected ==
  (/\ BookingParsed
   /\ \/ booking.firstName = <<>>
      \/ booking.lastName = <<>>
      \/ booking.email = <<>>) =>
    /\ flow = "none"
    /\ ledger = <<>>
    /\ pc = "done" => result.status = "error"

\* C26: a failure of a critical-path ledger call (customer lookup, customer
\* creation, document creation) is fatal to that event's processing: once
\* such a call fails, the handler reports an error and issues no further
\* customer-creation or document-creation call for that event.  Stated for
\* findOrCreateCustomer, with the sanctioned retry after a duplicate-name
\* error left aside.
CustomerRun == pc \in {"find", "create", "retry"} \/ CallsOf("findCustomers") # {}

FatalFailures ==
  {i \in DOMAIN calls : ~calls[i].ok /\ ~(calls[i].code = "6240")}

C26_FailedCallIsFatal ==
  CustomerRun =>
    /\ \A i \in FatalFailures : \A j \in DOMAIN calls :
         j > i => calls[j].op # "createCustomer"
    /\ (FatalFailures # {} /\ pc = "done") => result.status = "error"

\* C27: when customer creation fails with a duplicate-display-name error,
\* findOrCreateCustomer retries creation exactly once with the display name
\* disambiguated by appending the contact email; if that second attempt
\* fails the operation fails, and any other creation error fails immediately
\* without a retry.  At most two creation calls are ever made per event.
CreationCalls == [k \in 1..Cardinality(CallsOf("createCustomer")) |->
                    calls[Len(calls) - Cardinality(CallsOf("createCustomer")) + k]]

C27_DuplicateNameRetriedOnce ==
  CustomerRun =>
    LET created == CreationCalls
        first == created[1]
        second == created[2]
    IN /\ Len(created) <= 2
       /\ \A k \in DOMAIN created : created[k].op = "createCustomer"
       /\ Len(created) = 2 =>
            /\ first.code = "6240"
            /\ second.name = first.name \o <<" ", "(">> \o payload.email \o <<")">>
            /\ pc = "done"
            /\ second.ok <=> result.status = "success"
            /\ ~second.ok <=> result.status = "error"
       /\ (Len(created) = 1 /\ first.code = "6240") => pc = "retry"
       /\ (Len(created) = 1 /\ first.code = "other") =>
            pc = "done" /\ result.status = "error"
       /\ (pc = "done" /\ result.status = "success" /\ created # <<>>) =>
            /\ created[Len(created)].ok
            /\ ledger[Len(ledger)].DisplayName = result.type

C27_Witness ==
  /\ CustomerRun
  /\ pc = "done"
  /\ Len(CreationCalls) = 2
  /\ CreationCalls[1].code = "6240"
  /\ CreationCalls[2].ok

\* C28: a webhook delivery that is marked as a retry (X-Retry-Webhook header
\* set by the failed-webhooks retry endpoint) and fails again never writes a
\* new failed-webhook log entry, so retrying logged failures can never grow
\* the failure log.
LogIds(log) == [k \in DOMAIN log.store |-> log.store[k].id]

C28_RetryNeverGrowsLog ==
  [][usage'.retries > usage.retries =>
       /\ LogIds(results') = LogIds(results)
       /\ results'.index = results.index
       /\ \A k \in DOMAIN results.store :
            results'.store[k].payload = results.store[k].payload]_vars

C28_Witness ==
  /\ usage.retries = 2
  /\ Len(results.store) = 1
  /\ results.store[1].retried
  /\ ~results.store[1].retrySuccess
  /\ result.status = "retry failed"

\* C29: normalizing the same raw order or booking event twice yields
\* structurally identical canonical values: the result of
\* parseWooCommerceOrder and parseYCBMPayload depends only on the payload,
\* not on the time of processing or on an earlier normalization.  Stated for
\* orders: whatever the day of processing, parsing the delivered payload
\* gives the order the handler holds.
C29_NormalizationIgnoresTime ==
  OrderParsed =>
    \A now \in ProcessingDays(eventDate) :
      parseWooCommerceOrder(payload, settings, now) = order

=============================================================================
